---- MODULE Spec2Model ----
(***************************************************************************)
(* A model of esc, an RPN calculator: the stack engine (StackItem and      *)
(* StackState of esc/stack.py), the history manager (esc/history.py), the  *)
(* status bar state (esc/status.py), the execution of operations           *)
(* (EscOperation of esc/commands.py) and the keystroke handlers of the     *)
(* session loop (esc/__main__.py).                                         *)
(*                                                                         *)
(* Python strings are modelled as sequences of one-character strings and   *)
(* of fixed words, so that concatenation is \o.  A Decimal is modelled by  *)
(* the integer it denotes: the characters that can be typed in the model   *)
(* only spell integers.  A value that may be None is modelled by a         *)
(* sequence of length at most one: <<>> is None and <<x>> is the value x.  *)
(* A value returned by a method is modelled by the string Python prints    *)
(* for it ("True", "False", "None", "-1", ...).                            *)
(***************************************************************************)
EXTENDS Integers, Sequences, FiniteSets, TLC

VARIABLES ss, hs, status, registry, ret, running, menu, children, modes,
          phase, TESTING, frames

vars == <<ss, hs, status, registry, ret, running, menu, children, modes, phase,
          TESTING, frames>>

(***************************************************************************)
(* Bounds of the model.  STACKDEPTH and STACKWIDTH are 12 and 21 in        *)
(* esc/consts.py; the code only ever compares them with a length, and the  *)
(* model scales them down so that a full stack and a full item are         *)
(* reached.                                                                *)
(***************************************************************************)
STACKDEPTH == 3
STACKWIDTH == 2
MaxLog == 1
MaxUndo == 1
MaxDrift == 1

\* The characters typed in the model (util.is_number accepts digits, '.',
\* '_' and 'e') and the register names given.
Chars == {"0", "e"}
RegChars == {"a", "1"}

None == <<>>
Some(x) == <<x>>

(***************************************************************************)
(* Decimal(string) and str(Decimal)                                        *)
(***************************************************************************)
Digits == <<"0", "1", "2", "3", "4", "5", "6", "7", "8", "9">>

IsDigit(c) == \E i \in 1..10 : Digits[i] = c

DigitVal(c) == (CHOOSE i \in 1..10 : Digits[i] = c) - 1

RECURSIVE DigitsVal(_)
DigitsVal(str) ==
    IF str = <<>> THEN 0
    ELSE 10 * DigitsVal(SubSeq(str, 1, Len(str) - 1)) + DigitVal(str[Len(str)])

RECURSIVE Pow10(_)
Pow10(n) == IF n = 0 THEN 1 ELSE 10 * Pow10(n - 1)

AllDigits(str) == str # <<>> /\ \A i \in 1..Len(str) : IsDigit(str[i])

\* The position of the exponent marker, or 0.
EPos(str) ==
    IF \E i \in 1..Len(str) : str[i] = "e"
    THEN CHOOSE i \in 1..Len(str) : str[i] = "e" /\ \A j \in 1..(i - 1) : str[j] # "e"
    ELSE 0

\* Whether Decimal(str) succeeds: digits, then optionally 'e' and digits.
ValidNumber(str) ==
    IF EPos(str) = 0 THEN AllDigits(str)
    ELSE /\ AllDigits(SubSeq(str, 1, EPos(str) - 1))
         /\ AllDigits(SubSeq(str, EPos(str) + 1, Len(str)))

\* The value of Decimal(str) for a valid str.
DecimalOf(str) ==
    IF EPos(str) = 0 THEN DigitsVal(str)
    ELSE DigitsVal(SubSeq(str, 1, EPos(str) - 1))
           * Pow10(DigitsVal(SubSeq(str, EPos(str) + 1, Len(str))))

RECURSIVE NatStr(_)
NatStr(n) ==
    IF n < 10 THEN <<Digits[n + 1]>>
    ELSE NatStr(n \div 10) \o <<Digits[(n % 10) + 1]>>

\* str(d) of an integral Decimal that fits the precision: no exponent, no
\* leading or trailing zeros.
StringReprFromValue(d) == IF d < 0 THEN <<"-">> \o NatStr(0 - d) ELSE NatStr(d)

(***************************************************************************)
(* Decimals that are not integers.  The value of a Decimal is modelled by  *)
(* a sequence of integers: <<n>> is the integer n, and a longer sequence   *)
(* <<d1, ..., dk, e>> is the Decimal whose coefficient has the digits      *)
(* d1...dk and whose exponent is e, as sos / bos gives it under the        *)
(* context that setup_decimal_context sets (prec = PRECISION, rounding     *)
(* ROUND_HALF_EVEN).  The operands of a division are non-negative integers.*)
(***************************************************************************)
PRECISION == 12

IsFraction(v) == Len(v) > 1

Coefficient(v) == SubSeq(v, 1, Len(v) - 1)

Exponent(v) == v[Len(v)]

RECURSIVE NatDigits(_)
\* The digits of a natural number, none for 0.
NatDigits(n) == IF n = 0 THEN <<>> ELSE Append(NatDigits(n \div 10), n % 10)

RECURSIVE Increment(_)
\* The digits of the coefficient plus one.
Increment(coef) ==
    IF coef = <<>> THEN <<1>>
    ELSE IF coef[Len(coef)] < 9 THEN [coef EXCEPT ![Len(coef)] = @ + 1]
    ELSE Append(Increment(SubSeq(coef, 1, Len(coef) - 1)), 0)

\* The coefficient rounded up, brought back to PRECISION digits.
RoundedUp(coef, exp) ==
    IF Len(Increment(coef)) > PRECISION
    THEN Append(SubSeq(Increment(coef), 1, PRECISION), exp + 1)
    ELSE Append(Increment(coef), exp)

RECURSIVE LongDivisionTruncating(_, _, _, _)
\* A version of LongDivision that drops the digits beyond the precision;
\* C33_FourBySix tells it from LongDivision.
LongDivisionTruncating(r, b, coef, exp) ==
    IF r = 0 \/ Len(coef) = PRECISION THEN Append(coef, exp)
    ELSE LongDivisionTruncating((r * 10) % b, b,
                                IF coef = <<>> /\ (r * 10) \div b = 0 THEN <<>>
                                ELSE Append(coef, (r * 10) \div b),
                                exp - 1)

RECURSIVE LongDivision(_, _, _, _)
\* The digits of the quotient after those of coef, where r is the remainder
\* left: the division ends when the remainder is 0 (the quotient is exact)
\* or when coef has PRECISION digits, and then the quotient is rounded half
\* to even on the digits that follow.
LongDivision(r, b, coef, exp) ==
    IF r = 0 THEN Append(coef, exp)
    ELSE IF Len(coef) = PRECISION
    THEN LET d == (r * 10) \div b
             rest == (r * 10) % b IN
         IF d > 5 \/ (d = 5 /\ rest > 0) \/ (d = 5 /\ rest = 0 /\ coef[Len(coef)] % 2 = 1)
         THEN RoundedUp(coef, exp)
         ELSE Append(coef, exp)
    ELSE LongDivision((r * 10) % b, b,
                      IF coef = <<>> /\ (r * 10) \div b = 0 THEN <<>>
                      ELSE Append(coef, (r * 10) \div b),
                      exp - 1)

\* Decimal(sos) / Decimal(bos) for integers sos >= 0 and bos > 0: an exact
\* integer quotient has the exponent 0.
DecimalDivide(sos, bos) ==
    IF sos % bos = 0 THEN <<sos \div bos>>
    ELSE LongDivision(sos % bos, bos, NatDigits(sos \div bos), 0)

RECURSIVE Zeros(_)
Zeros(n) == IF n <= 0 THEN <<>> ELSE <<"0">> \o Zeros(n - 1)

DigitChars(coef) == [i \in 1..Len(coef) |-> Digits[coef[i] + 1]]

RECURSIVE Normalize(_)
\* Decimal.normalize of a Decimal that is not 0: the trailing zeros of the
\* coefficient are moved into the exponent.
Normalize(v) ==
    IF Len(v) > 2 /\ v[Len(v) - 1] = 0
    THEN Normalize(Append(SubSeq(v, 1, Len(v) - 2), Exponent(v) + 1))
    ELSE v

\* StackItem._remove_exponent: the Decimal is normalized, and one that is an
\* integer is quantized to the exponent 0 unless that takes more than
\* PRECISION digits (quantize then raises InvalidOperation, which is passed).
RemoveExponent(d) ==
    LET retval == Normalize(d) IN
    IF Exponent(retval) > 0 /\ Len(Coefficient(retval)) + Exponent(retval) <= PRECISION
    THEN Append(Coefficient(retval) \o [i \in 1..Exponent(retval) |-> 0], 0)
    ELSE retval

\* Decimal.__str__: the plain notation when the exponent is at most 0 and
\* the number is at least 1e-6, the scientific notation otherwise.
DecimalStr(v) ==
    LET coef == DigitChars(Coefficient(v))
        leftdigits == Exponent(v) + Len(coef)
        dotplace == IF Exponent(v) <= 0 /\ leftdigits > -6 THEN leftdigits ELSE 1
        intpart == IF dotplace <= 0 THEN <<"0">>
                   ELSE IF dotplace >= Len(coef) THEN coef \o Zeros(dotplace - Len(coef))
                   ELSE SubSeq(coef, 1, dotplace)
        fracpart == IF dotplace <= 0 THEN <<".">> \o Zeros(0 - dotplace) \o coef
                    ELSE IF dotplace >= Len(coef) THEN <<>>
                    ELSE <<".">> \o SubSeq(coef, dotplace + 1, Len(coef))
        exppart == IF leftdigits = dotplace THEN <<>>
                   ELSE IF leftdigits - dotplace < 0
                   THEN <<"E", "-">> \o NatStr(dotplace - leftdigits)
                   ELSE <<"E", "+">> \o NatStr(leftdigits - dotplace)
    IN intpart \o fracpart \o exppart

\* str.replace('E', 'e')
ReplaceE(str) == [i \in 1..Len(str) |-> IF str[i] = "E" THEN "e" ELSE str[i]]

(***************************************************************************)
(* StackItem                                                               *)
(***************************************************************************)
InitPartial(firstchar) ==
    [is_entered |-> FALSE, decimal |-> None, string |-> <<firstchar>>]

InitFull(decval) ==
    [is_entered |-> TRUE, decimal |-> Some(decval), string |-> StringReprFromValue(decval)]

\* _init_full of a Decimal that is not an integer.
InitFullFraction(v) ==
    [is_entered |-> TRUE, decimal |-> v,
     string |-> ReplaceE(DecimalStr(RemoveExponent(Normalize(v))))]

\* StackItem(decval=v)
StackItemOf(v) == IF IsFraction(v) THEN InitFullFraction(v) ELSE InitFull(v[1])

\* A version of ItemAddCharacter that always appends; C29_AddCharacter tells
\* it from ItemAddCharacter.
ItemAddCharacterAlways(item, nextchar) ==
    [item |-> [item EXCEPT !.string = @ \o <<nextchar>>], val |-> TRUE]

\* StackItem.add_character: the new item and the value returned.
ItemAddCharacter(item, nextchar) ==
    IF Len(item.string) < STACKWIDTH
    THEN [item |-> [item EXCEPT !.string = @ \o <<nextchar>>], val |-> TRUE]
    ELSE [item |-> item, val |-> FALSE]

ItemBackspace(item) ==
    [item EXCEPT !.string = SubSeq(@, 1, Len(@) - 1)]

\* A faulty finish_entry, which reports success without converting the
\* string: C5_InvalidEntry must tell it from finish_entry.
FinishEntryUnchecked(item) == [item |-> item, val |-> TRUE]

\* StackItem.finish_entry: the new item and the value returned.
FinishEntry(item) ==
    IF ValidNumber(item.string)
    THEN [item |-> [is_entered |-> TRUE,
                    decimal |-> Some(DecimalOf(item.string)),
                    string |-> StringReprFromValue(DecimalOf(item.string))],
          val |-> TRUE]
    ELSE [item |-> item, val |-> FALSE]

(***************************************************************************)
(* StatusState (esc/status.py)                                             *)
(***************************************************************************)
StatusInit ==
    [state |-> "READY", error_state |-> "OK", error_seen |-> TRUE,
     override_msg |-> <<>>]

StatusReady(st) ==
    [st EXCEPT !.state = "READY", !.error_state = "OK", !.error_seen = TRUE]

StatusEnteringNumber(st) == [st EXCEPT !.state = "ENTERING_NUMBER"]

StatusInMenu(st) == [st EXCEPT !.state = "IN_MENU"]

StatusExpectingRegister(st) ==
    [st EXCEPT !.error_state = "OK", !.state = "EXPECTING_REGISTER"]

StatusError(st, msg) ==
    [st EXCEPT !.error_state = "ERROR", !.error_seen = FALSE, !.override_msg = msg]

StatusMarkSeen(st) ==
    IF st.error_seen THEN [st EXCEPT !.error_state = "OK"]
    ELSE [st EXCEPT !.error_seen = TRUE]

(***************************************************************************)
(* StackState (esc/stack.py).  The operators work on a world w, a record   *)
(* of the stack state ss, the module-global history hs and the             *)
(* module-global status st, and give a result: the new world, the value    *)
(* returned (as a string), the items returned, and the exception raised    *)
(* ("" when none) with its message and, for InsufficientItemsError, its    *)
(* number_required.  The field fexc of the result of executing an          *)
(* operation keeps the exception that the bound function raised.           *)
(***************************************************************************)
StackStateInit ==
    [s |-> <<>>, operation_history |-> <<>>, stack_posn |-> -1,
     editing_last_item |-> FALSE]

Res(w, val) ==
    [w |-> w, val |-> val, out |-> <<>>, exc |-> "", msg |-> <<>>, num |-> 0,
     fexc |-> ""]

Raise(w, exc, msg) ==
    [w |-> w, val |-> "None", out |-> <<>>, exc |-> exc, msg |-> msg, num |-> 0,
     fexc |-> ""]

\* The 1-based position that the Python index i denotes in s, 0 for IndexError.
PyIdx(s, i) ==
    IF i >= 0 /\ i < Len(s) THEN i + 1
    ELSE IF i < 0 /\ 0 - i <= Len(s) THEN Len(s) + i + 1
    ELSE 0

\* The editing_last_item setter, with its effect on the status bar.
SetEditing(w, value) ==
    [w EXCEPT !.ss.editing_last_item = value,
              !.st = IF value THEN StatusEnteringNumber(@) ELSE StatusReady(@)]

\* The bos property: None or the item at stack_posn.
Bos(sst) ==
    IF PyIdx(sst.s, sst.stack_posn) = 0 THEN None
    ELSE Some(sst.s[PyIdx(sst.s, sst.stack_posn)])

\* del self.bos
DelBos(w) ==
    IF w.ss.s = <<>> THEN Raise(w, "IndexError", <<"pop from empty list">>)
    ELSE Res([SetEditing([w EXCEPT !.ss.s = SubSeq(@, 1, Len(@) - 1)], FALSE)
                EXCEPT !.ss.stack_posn = @ - 1], "None")

CursorPosn(sst) ==
    IF Bos(sst) = None \/ ~sst.editing_last_item THEN 0
    ELSE Len(Bos(sst)[1].string)

FreeStackSpaces(sst) == STACKDEPTH - sst.stack_posn - 1

\* A faulty has_push_space, which forgets the items to be pushed:
\* C2_StackDepth must tell it from has_push_space.
HasPushSpaceNow(sst, spaces) == STACKDEPTH >= Len(sst.s)

HasPushSpace(sst, spaces) == STACKDEPTH >= Len(sst.s) + spaces

NewEntryStackItem(w, c) ==
    IF ~HasPushSpace(w.ss, 1) THEN Res(w, "False")
    ELSE Res(SetEditing([w EXCEPT !.ss.stack_posn = @ + 1,
                                  !.ss.s = Append(@, InitPartial(c))], TRUE),
             "True")

AddCharacter(w, c) ==
    IF w.ss.editing_last_item
    THEN LET i == PyIdx(w.ss.s, w.ss.stack_posn) IN
         IF i = 0 THEN Raise(w, "IndexError", <<"list index out of range">>)
         ELSE IF w.ss.s[i].is_entered
         THEN Raise(w, "AssertionError", <<"Number already entered!">>)
         ELSE LET r == ItemAddCharacter(w.ss.s[i], c) IN
              Res([w EXCEPT !.ss.s[i] = r.item], IF r.val THEN "True" ELSE "False")
    ELSE NewEntryStackItem(w, c)

Backspace(w) ==
    IF ~w.ss.editing_last_item THEN Res(w, "-1")
    ELSE IF Bos(w.ss) = None
    THEN Raise(w, "AssertionError",
               <<"Editing last item without an item on the stack">>)
    ELSE IF CursorPosn(w.ss) = 1 THEN [DelBos(w) EXCEPT !.val = "1"]
    ELSE IF Bos(w.ss)[1].is_entered
    THEN Raise(w, "AssertionError", <<"Cannot backspace an already-entered string!">>)
    ELSE Res([w EXCEPT !.ss.s[PyIdx(w.ss.s, w.ss.stack_posn)] = ItemBackspace(@)],
             "0")

Clear(w) ==
    Res(SetEditing([w EXCEPT !.ss.s = <<>>, !.ss.stack_posn = -1], FALSE), "None")

Memento(sst) == sst

\* A faulty restore, which runs the property logic but keeps __dict__:
\* C4_ArithmeticErrors must tell it from restore.
RestoreFlag(w, memento) == SetEditing(w, memento.editing_last_item)

Restore(w, memento) == SetEditing([w EXCEPT !.ss = memento], memento.editing_last_item)

RecordOperation(sst, description) ==
    [sst EXCEPT !.operation_history = Append(@, description)]

\* A faulty push, which appends the items but leaves stack_posn:
\* C14_PopPush must tell it from push.
PushItemsKeepingPosn(w, items, description) ==
    IF ~HasPushSpace(w.ss, Len(items)) THEN Res(w, "False")
    ELSE LET logged == IF description = None THEN w.ss
                       ELSE RecordOperation(w.ss, description[1]) IN
         Res([w EXCEPT !.ss = [logged EXCEPT !.s = @ \o items]], "True")

\* push of already-built StackItems; description is None or a string.
PushItems(w, items, description) ==
    IF ~HasPushSpace(w.ss, Len(items)) THEN Res(w, "False")
    ELSE LET logged == IF description = None THEN w.ss
                       ELSE RecordOperation(w.ss, description[1]) IN
         Res([w EXCEPT !.ss = [logged EXCEPT !.s = @ \o items,
                                             !.stack_posn = @ + Len(items)]],
             "True")

\* push of Decimals: each is wrapped in a StackItem.
PushDecimals(w, decs, description) ==
    PushItems(w, [i \in 1..Len(decs) |-> InitFull(decs[i])], description)

LastN(s, num) == SubSeq(s, Len(s) - num + 1, Len(s))

\* A faulty pop, without the special case of no items: the slices s[-0:] and
\* s[:-0] are the whole stack and the empty stack.  C13_Pop must tell it
\* from pop.
PopNaiveSlice(w, num, retain) ==
    LET w1 == IF retain THEN w ELSE [w EXCEPT !.ss.stack_posn = @ - num] IN
    IF Len(w.ss.s) < num THEN Res(w1, "None")
    ELSE IF num = 0
    THEN [Res(IF retain THEN w1 ELSE [w1 EXCEPT !.ss.s = <<>>], "list")
            EXCEPT !.out = w.ss.s]
    ELSE [Res(IF retain THEN w1
              ELSE [w1 EXCEPT !.ss.s = SubSeq(@, 1, Len(@) - num)], "list")
            EXCEPT !.out = LastN(w.ss.s, num)]

Pop(w, num, retain) ==
    LET w1 == IF retain THEN w ELSE [w EXCEPT !.ss.stack_posn = @ - num] IN
    IF Len(w.ss.s) < num THEN Res(w1, "None")
    ELSE IF num = 0 THEN [Res(w1, "list") EXCEPT !.out = <<>>]
    ELSE [Res(IF retain THEN w1
              ELSE [w1 EXCEPT !.ss.s = SubSeq(@, 1, Len(@) - num)], "list")
            EXCEPT !.out = LastN(w.ss.s, num)]

(***************************************************************************)
(* HistoricalStack (esc/history.py)                                        *)
(***************************************************************************)
HistoryInit == [undo_stack |-> <<>>, redo_stack |-> <<>>]

\* A faulty checkpoint_stack, which keeps the redo stack:
\* C10_Checkpoint must tell it from checkpoint_stack.
CheckpointStackKeepingRedo(w) ==
    IF w.hs.undo_stack = <<>> \/ w.hs.undo_stack[Len(w.hs.undo_stack)] # Memento(w.ss)
    THEN [w EXCEPT !.hs.undo_stack = Append(@, Memento(w.ss))]
    ELSE w

CheckpointStack(w) ==
    LET h1 == IF w.hs.redo_stack # <<>> THEN [w.hs EXCEPT !.redo_stack = <<>>]
              ELSE w.hs IN
    IF h1.undo_stack = <<>> \/ h1.undo_stack[Len(h1.undo_stack)] # Memento(w.ss)
    THEN [w EXCEPT !.hs = [h1 EXCEPT !.undo_stack = Append(@, Memento(w.ss))]]
    ELSE [w EXCEPT !.hs = h1]

\* A faulty undo, which puts the restored memento on the redo stack:
\* C7_UndoRedo must tell it from undo.
UndoForgetting(w) ==
    IF w.hs.undo_stack # <<>>
    THEN LET n == Len(w.hs.undo_stack) IN
         Res(Restore([w EXCEPT !.hs.undo_stack = SubSeq(@, 1, n - 1),
                               !.hs.redo_stack = Append(@, w.hs.undo_stack[n])],
                     w.hs.undo_stack[n]),
             "True")
    ELSE Res(w, "False")

\* A faulty undo, which restores the last checkpoint but leaves it on the
\* undo stack: C11_UndoBeyond must tell it from undo.
UndoPeeking(w) ==
    IF w.hs.undo_stack # <<>>
    THEN LET n == Len(w.hs.undo_stack) IN
         Res(Restore([w EXCEPT !.hs.redo_stack = Append(@, Memento(w.ss))],
                     w.hs.undo_stack[n]),
             "True")
    ELSE Res(w, "False")

Undo(w) ==
    IF w.hs.undo_stack # <<>>
    THEN LET n == Len(w.hs.undo_stack) IN
         Res(Restore([w EXCEPT !.hs.undo_stack = SubSeq(@, 1, n - 1),
                               !.hs.redo_stack = Append(@, Memento(w.ss))],
                     w.hs.undo_stack[n]),
             "True")
    ELSE Res(w, "False")

\* A faulty redo, which moves the mementos but restores nothing:
\* C8_UndoKeepsTheEntry must tell it from redo.
RedoMoving(w) ==
    IF w.hs.redo_stack # <<>>
    THEN LET n == Len(w.hs.redo_stack) IN
         Res([w EXCEPT !.hs.redo_stack = SubSeq(@, 1, n - 1),
                       !.hs.undo_stack = Append(@, Memento(w.ss))],
             "True")
    ELSE Res(w, "False")

Redo(w) ==
    IF w.hs.redo_stack # <<>>
    THEN LET n == Len(w.hs.redo_stack) IN
         Res(Restore([w EXCEPT !.hs.redo_stack = SubSeq(@, 1, n - 1),
                               !.hs.undo_stack = Append(@, Memento(w.ss))],
                     w.hs.redo_stack[n]),
             "True")
    ELSE Res(w, "False")

\* A faulty enter_number, which checkpoints the stack after finishing the
\* entry: C9_CheckpointBeforeAction must tell it from enter_number.
EnterNumberThenCheckpoint(w, running_op) ==
    LET i == PyIdx(w.ss.s, w.ss.stack_posn) IN
    IF w.ss.editing_last_item
    THEN IF i = 0 THEN Raise(w, "IndexError", <<"list index out of range">>)
         ELSE IF FinishEntry(w.ss.s[i]).val
         THEN Res(CheckpointStack(SetEditing([w EXCEPT !.ss.s[i] = FinishEntry(@).item],
                                             FALSE)),
                  "True")
         ELSE Raise(CheckpointStack(w), "ValueError",
                    <<"Bottom of stack is not a valid number.">>)
    ELSE Res(CheckpointStack(w), "False")

\* A faulty enter_number, which finishes the entry but leaves the edit flag
\* set: C15_EnterTwice must tell it from enter_number.
EnterNumberStillEditing(w, running_op) ==
    LET Checkpointed(w1) ==
          LET i == PyIdx(w1.ss.s, w1.ss.stack_posn) IN
          IF w1.ss.editing_last_item
          THEN IF i = 0 THEN Raise(w1, "IndexError", <<"list index out of range">>)
               ELSE IF FinishEntry(w1.ss.s[i]).val
               THEN Res([w1 EXCEPT !.ss.s[i] = FinishEntry(@).item], "True")
               ELSE Raise(w1, "ValueError",
                          <<"Bottom of stack is not a valid number.">>)
          ELSE Res(w1, "False")
    IN Checkpointed(CheckpointStack(w))

\* A version of enter_number that ends the editing and leaves the item as
\* it was typed; C39_OnlyLastPartial tells it from enter_number.
EnterNumberLeavingEntry(w, running_op) ==
    LET Checkpointed(w1) ==
          IF w1.ss.editing_last_item THEN Res(SetEditing(w1, FALSE), "True")
          ELSE Res(w1, "False")
    IN Checkpointed(CheckpointStack(w))

\* StackState.enter_number; running_op is None or the key of an operation.
EnterNumber(w, running_op) ==
    LET Checkpointed(w1) ==
          LET i == PyIdx(w1.ss.s, w1.ss.stack_posn) IN
          IF w1.ss.editing_last_item
          THEN IF i = 0 THEN Raise(w1, "IndexError", <<"list index out of range">>)
               ELSE IF FinishEntry(w1.ss.s[i]).val
               THEN Res(SetEditing([w1 EXCEPT !.ss.s[i] = FinishEntry(@).item], FALSE),
                        "True")
               ELSE Raise(w1, "ValueError",
                          IF running_op # None
                          THEN <<"Cannot run \"", running_op[1],
                                 "\": invalid value on bos.">>
                          ELSE <<"Bottom of stack is not a valid number.">>)
          ELSE Res(w1, "False")
    IN Checkpointed(CheckpointStack(w))

\* A faulty transaction, which restores nothing:
\* C1_ExceptionRestores must tell it from transaction.
TransactionOpen(checkpoint, r) ==
    IF r.exc = "RollbackTransaction" THEN [Res(r.w, "None") EXCEPT !.fexc = r.fexc]
    ELSE r

\* A faulty transaction, which sets the error before it restores:
\* C6_Rollback must tell it from transaction.
TransactionErrorFirst(checkpoint, r) ==
    IF r.exc = "" THEN r
    ELSE IF r.exc = "RollbackTransaction"
    THEN [Res(Restore(IF r.msg # <<>> THEN [r.w EXCEPT !.st = StatusError(@, r.msg)]
                      ELSE r.w,
                      checkpoint),
              "None")
            EXCEPT !.fexc = r.fexc]
    ELSE [r EXCEPT !.w = Restore(r.w, checkpoint)]

\* The context manager StackState.transaction around a body that started in
\* the state with memento checkpoint and ended with the result r.
Transaction(checkpoint, r) ==
    IF r.exc = "" THEN r
    ELSE IF r.exc = "RollbackTransaction"
    THEN LET w1 == Restore(r.w, checkpoint) IN
         [Res(IF r.msg # <<>> THEN [w1 EXCEPT !.st = StatusError(@, r.msg)] ELSE w1,
              "None")
            EXCEPT !.fexc = r.fexc]
    ELSE [r EXCEPT !.w = Restore(r.w, checkpoint)]

(***************************************************************************)
(* Operations (esc/commands.py, esc/functions.py).  Besides operations     *)
(* that esc registers itself, the table holds a plugin operation "f" whose *)
(* function is arbitrary: what it does is chosen by the caller of Execute  *)
(* among PluginChoices (it returns a value, or raises some exception).     *)
(***************************************************************************)
Lit(text) == [lit |-> text, idx |-> -1]
Arg(i) == [lit |-> "", idx |-> i]

Divide ==
    [key |-> "/", pop |-> 2, push |-> 1, retain |-> FALSE, log_as |-> "binop",
     template |-> <<>>, description |-> None]
Duplicate ==
    [key |-> "d", pop |-> 1, push |-> 2, retain |-> FALSE, log_as |-> "format",
     template |-> <<Lit("duplicate "), Arg(0)>>,
     description |-> Some(<<"duplicate bos">>)]
Roll ==
    [key |-> "r", pop |-> -1, push |-> -1, retain |-> FALSE, log_as |-> "format",
     template |-> <<Lit("roll off tos "), Arg(0)>>,
     description |-> Some(<<"roll off tos">>)]
ClearStack ==
    [key |-> "c", pop |-> -1, push |-> 0, retain |-> FALSE, log_as |-> "None",
     template |-> <<>>, description |-> Some(<<"clear stack">>)]
Plugin ==
    [key |-> "f", pop |-> 1, push |-> 1, retain |-> FALSE, log_as |-> "unop",
     template |-> <<>>, description |-> Some(<<"plugin">>)]

Operations == {Divide, Duplicate, Roll, ClearStack, Plugin}

\* commands.ModeChange: an operation that takes and returns no item and
\* whose function is lambda _, __: modes.set(mode_name, to_value).  The
\* function is kept as the two arguments of modes.set.
ModeChange(key, description, mode_name, to_value) ==
    [key |-> key, pop |-> 0, push |-> 0, retain |-> FALSE, log_as |-> "None",
     template |-> <<>>, description |-> Some(<<description>>),
     mode_name |-> mode_name, to_value |-> to_value]

IsModeChange(op) == "to_value" \in DOMAIN op


\* sum_entire_stack, whose log_as is a callable of the values returned.
SumEntireStack ==
    [key |-> "S", pop |-> -1, push |-> 1, retain |-> FALSE, log_as |-> "callable",
     template |-> <<>>, description |-> Some(<<"sum entire stack">>)]

\* Two plugin operations that retain their arguments: one counts the items
\* of the whole stack (def count(*stack)), one copies bos (def copy(bos)).
PluginCount ==
    [key |-> "n", pop |-> -1, push |-> 1, retain |-> TRUE, log_as |-> "None",
     template |-> <<>>, description |-> Some(<<"count items">>)]
PluginCopy ==
    [key |-> "k", pop |-> 1, push |-> 1, retain |-> TRUE, log_as |-> "None",
     template |-> <<>>, description |-> Some(<<"copy bos">>)]

\* A plugin operation whose function declares the parameter testing
\* (def is_testing(testing)) and returns 1 in a self-test and 0 otherwise.
PluginTesting ==
    [key |-> "T", pop |-> 0, push |-> 1, retain |-> FALSE, log_as |-> "None",
     template |-> <<>>, description |-> Some(<<"testing?">>)]

\* The operations whose results are stored in a stack that may be full.
StoreOperations == {Duplicate, Roll, ClearStack, SumEntireStack, PluginCount, PluginCopy}

RECURSIVE SumDecimals(_)
\* sum(stack) of Decimals; None when an item has no Decimal (a TypeError).
SumDecimals(args) ==
    IF args = <<>> THEN Some(0)
    ELSE LET Added(rest) ==
               IF rest = None \/ args[1].decimal = None THEN None
               ELSE Some(args[1].decimal[1] + rest[1])
         IN Added(SumDecimals(Tail(args)))

PluginRaises ==
    {"ValueError", "ZeroDivisionError", "InvalidOperation", "InsufficientItemsError",
     "FunctionExecutionError", "TypeError", "RollbackTransaction"}

PluginChoices == {"return"} \cup PluginRaises

\* What a bound function does: it returns ret (None, or a sequence of
\* values, each a Decimal or None), or raises exc.
Returns(retval) == [exc |-> "", msg |-> <<>>, num |-> 0, ret |-> retval]
Raises(exc, msg, num) == [exc |-> exc, msg |-> msg, num |-> num, ret |-> None]

\* Whether the quotient of the two bottom items is a value of the model.
Modelled(op, args) ==
    op.key = "/" /\ Len(args) = 2 /\ args[1].is_entered /\ args[2].is_entered
                 /\ args[2].decimal[1] # 0
        => args[1].decimal[1] % args[2].decimal[1] = 0

\* The stack parameters that the function of op declares, in the order of
\* its signature; none for a function that binds the whole stack (*stack).
StackParms(op) ==
    IF op.key = "/" THEN <<"sos", "bos">>
    ELSE IF op.key \in {"d", "f", "k"} THEN <<"bos">>
    ELSE <<>>

\* stack[-k:]
PySliceLast(stack, k) ==
    IF k = 0 \/ k >= Len(stack) THEN stack
    ELSE SubSeq(stack, Len(stack) - k + 1, Len(stack))

\* _bind_stack_parm: no parameter of these functions ends with _stackitem or
\* _str, so each is bound to the Decimal of its item.
BindStackParm(stack_item, parm) == stack_item.decimal

\* A faulty wrapper, which binds the first declared parameter to the last
\* item: C16_Binding must tell it from the wrapper.
WrapperReversed(op, stack) ==
    LET parms == StackParms(op)
        stack_slice == PySliceLast(stack, Len(parms))
        n == IF Len(stack_slice) < Len(parms) THEN Len(stack_slice) ELSE Len(parms) IN
    [name \in {parms[i] : i \in 1..n} |->
        BindStackParm(stack_slice[n + 1 - (CHOOSE i \in 1..n : parms[i] = name)], name)]

\* The keyword binding that the wrapper of function_decorator builds from
\* the items it is called with: zip(stack_slice, stack_parms).
Wrapper(op, stack) ==
    LET parms == StackParms(op)
        stack_slice == PySliceLast(stack, Len(parms))
        n == IF Len(stack_slice) < Len(parms) THEN Len(stack_slice) ELSE Len(parms) IN
    [name \in {parms[i] : i \in 1..n} |->
        BindStackParm(stack_slice[CHOOSE i \in 1..n : parms[i] = name], name)]

\* The function bound to op (wrapped by Operation.function_decorator), called
\* with the items args.
Function(op, args, choice) ==
    IF IsModeChange(op)
    THEN IF choice = "" THEN Returns(None) ELSE Raises(choice, <<"modes.set">>, 0)
    ELSE IF op.key = "/"
    THEN LET Bound(b) ==
               IF ~({"sos", "bos"} \subseteq DOMAIN b)
               THEN Raises("TypeError", <<"missing a required argument">>, 0)
               ELSE IF b["sos"] = None \/ b["bos"] = None
               THEN Raises("TypeError", <<"unsupported operand type(s) for /">>, 0)
               ELSE IF b["bos"][1] = 0
               THEN IF b["sos"][1] = 0
                    THEN Raises("InvalidOperation", <<"DivisionUndefined">>, 0)
                    ELSE Raises("ZeroDivisionError", <<"DivisionByZero">>, 0)
               ELSE Returns(Some(<<DecimalDivide(b["sos"][1], b["bos"][1])>>))
         IN Bound(Wrapper(op, args))
    ELSE IF op.key = "d"
    THEN LET Bound(b) ==
               IF "bos" \notin DOMAIN b
               THEN Raises("TypeError", <<"missing a required argument">>, 0)
               ELSE Returns(Some(<<b["bos"], b["bos"]>>))
         IN Bound(Wrapper(op, args))
    ELSE IF op.key = "r"
    THEN IF args = <<>> THEN Raises("InsufficientItemsError", <<>>, 1)
         ELSE Returns(Some([i \in 1..(Len(args) - 1) |-> args[i + 1].decimal]))
    ELSE IF op.key = "c"
    THEN IF args = <<>> THEN Raises("InsufficientItemsError", <<>>, 1)
         ELSE Returns(None)
    ELSE IF op.key = "S"
    THEN IF Len(args) < 2 THEN Raises("InsufficientItemsError", <<>>, 2)
         ELSE IF SumDecimals(args) = None
         THEN Raises("TypeError", <<"unsupported operand type(s) for +">>, 0)
         ELSE Returns(Some(<<SumDecimals(args)>>))
    ELSE IF op.key = "n"
    THEN Returns(Some(<<Some(Len(args))>>))
    ELSE IF op.key = "k"
    THEN LET Bound(b) ==
               IF "bos" \notin DOMAIN b
               THEN Raises("TypeError", <<"missing a required argument">>, 0)
               ELSE Returns(Some(<<b["bos"]>>))
         IN Bound(Wrapper(op, args))
    ELSE IF op.key = "T"
    THEN Returns(Some(<<Some(IF choice = "testing" THEN 1 ELSE 0)>>))
    ELSE IF choice = "return" THEN Returns(Some(<<Some(1)>>))
    ELSE IF choice = "InsufficientItemsError" THEN Raises(choice, <<>>, 2)
    ELSE Raises(choice, <<"plugin says no">>, 0)

\* str() of a value returned by a function.
ValueStr(v) ==
    IF v = None THEN <<"None">>
    ELSE IF IsFraction(v) THEN DecimalStr(v)
    ELSE StringReprFromValue(v[1])

RECURSIVE Format(_, _)
\* template.format(*vals); <<>> stands for the IndexError that a placeholder
\* without a value raises (templates are never empty).
Format(template, vals) ==
    IF template = <<>> THEN <<"">>
    ELSE LET h == template[1]
             rest == Format(Tail(template), vals) IN
         IF rest = <<>> THEN <<>>
         ELSE IF h.idx = -1 THEN <<h.lit>> \o rest
         ELSE IF h.idx + 1 > Len(vals) THEN <<>>
         ELSE vals[h.idx + 1] \o rest

\* FunctionProgrammingError(operation=..., problem=...): the constructor of
\* esc/oops.py has no parameter named operation, so the call raises TypeError.
FunctionProgrammingError == "TypeError"

\* EscOperation._describe_operation: the description, or the exception raised.
DescribeOperation(op, args, retvals) ==
    IF op.log_as = "None" THEN [exc |-> "", text |-> op.description[1]]
    ELSE IF op.log_as = "unop"
    THEN IF Len(args) < 1 \/ Len(retvals) < 1
         THEN [exc |-> FunctionProgrammingError, text |-> <<>>]
         ELSE [exc |-> "",
               text |-> op.description[1] \o <<" ">> \o args[1].string \o <<" = ">>
                          \o ValueStr(retvals[1])]
    ELSE IF op.log_as = "binop"
    THEN IF Len(args) < 2 \/ Len(retvals) < 1
         THEN [exc |-> FunctionProgrammingError, text |-> <<>>]
         ELSE [exc |-> "",
               text |-> args[1].string \o <<" ", op.key, " ">> \o args[2].string
                          \o <<" = ">> \o ValueStr(retvals[1])]
    ELSE IF op.log_as = "callable"
    THEN IF Len(retvals) < 1 THEN [exc |-> "IndexError", text |-> <<>>]
         ELSE [exc |-> "", text |-> op.description[1] \o <<" = ">> \o ValueStr(retvals[1])]
    ELSE LET text == Format(op.template,
                            [i \in 1..Len(args) |-> args[i].string]
                              \o [i \in 1..Len(retvals) |-> ValueStr(retvals[i])]) IN
         IF text = <<>> THEN [exc |-> "IndexError", text |-> <<>>]
         ELSE [exc |-> "", text |-> text]

\* A faulty _insufficient_items_on_stack, which always reports self.pop:
\* C3_InsufficientItems must tell it from _insufficient_items_on_stack.
InsufficientItemsOnStackOfPop(w, op, pops_requested) ==
    [Raise(w, "InsufficientItemsError",
           <<"'", op.key, "' needs at least ">> \o StringReprFromValue(op.pop)
             \o <<IF op.pop = 1 THEN " item" ELSE " items", " on stack.">>)
       EXCEPT !.num = op.pop]

InsufficientItemsOnStack(w, op, pops_requested) ==
    [Raise(w, "InsufficientItemsError",
           <<"'", op.key, "' needs at least ">> \o StringReprFromValue(pops_requested)
             \o <<IF pops_requested = 1 THEN " item" ELSE " items", " on stack.">>)
       EXCEPT !.num = pops_requested]

\* A version of RetrieveArguments that does not enter the number being
\* typed; C34_ExecutionOrder tells it from RetrieveArguments.
RetrieveArgumentsWithoutEntering(w, op) ==
    LET Popped(p) ==
          IF p.val = "None" /\ op.pop # 0
          THEN InsufficientItemsOnStack(p.w, op, op.pop)
          ELSE p
    IN IF ~HasPushSpace(w.ss, op.push - op.pop) /\ op.pop # -1
       THEN Raise(w, "FunctionExecutionError", <<"'", op.key, "': stack is too full.">>)
       ELSE IF op.pop = -1
       THEN [Res(IF op.retain THEN w ELSE Clear(w).w, "list") EXCEPT !.out = w.ss.s]
       ELSE Popped(Pop(w, op.pop, op.retain))

\* EscOperation._retrieve_arguments: the arguments are the field out.
RetrieveArguments(w, op) ==
    LET Popped(p) ==
          IF p.val = "None" /\ op.pop # 0
          THEN InsufficientItemsOnStack(p.w, op, op.pop)
          ELSE p
        Entered(r1) ==
          IF r1.exc = "ValueError" THEN Raise(r1.w, "FunctionExecutionError", r1.msg)
          ELSE IF r1.exc # "" THEN r1
          ELSE IF ~HasPushSpace(r1.w.ss, op.push - op.pop) /\ op.pop # -1
          THEN LET num_short == op.push - op.pop - FreeStackSpaces(r1.w.ss) IN
               Raise(r1.w, "FunctionExecutionError",
                     <<"'", op.key, "': stack is too full (short ">>
                       \o StringReprFromValue(num_short)
                       \o <<IF num_short = 1 THEN " space" ELSE " spaces", ").">>)
          ELSE IF op.pop = -1
          THEN [Res(IF op.retain THEN r1.w ELSE Clear(r1.w).w, "list")
                  EXCEPT !.out = r1.w.ss.s]
          ELSE Popped(Pop(r1.w, op.pop, op.retain))
    IN Entered(EnterNumber(w, Some(op.key)))

\* EscOperation._store_results
StoreResults(w, op, args, return_values) ==
    IF op.push > 0 \/ (op.push = -1 /\ return_values # None)
    THEN LET Pushed(retvals, d) ==
                IF \E i \in 1..Len(retvals) : retvals[i] = None
                THEN Raise(w, FunctionProgrammingError,
                           <<"returned a value that cannot be converted to a Decimal">>)
                ELSE IF d.exc # ""
                THEN Raise(w, d.exc, <<"cannot describe the operation">>)
                ELSE [PushItems(w, [i \in 1..Len(retvals) |-> StackItemOf(retvals[i])],
                                Some(d.text))
                        EXCEPT !.val = "None"]
             Returned(retvals) == Pushed(retvals, DescribeOperation(op, args, retvals))
         IN Returned(IF return_values = None THEN <<None>> ELSE return_values[1])
    ELSE LET Recorded(d) ==
                IF d.exc # "" THEN Raise(w, d.exc, <<"cannot describe the operation">>)
                ELSE Res([w EXCEPT !.ss = RecordOperation(@, d.text)], "None")
         IN Recorded(DescribeOperation(op, args, <<>>))

\* A version of Binding that binds the parameter testing to False;
\* C35_TestingFlag tells it from Binding.
BindingNeverTesting(op, w, choice) == IF op.key = "T" THEN "not testing" ELSE choice

\* keyword_binding['testing'] = consts.TESTING, in the wrapper: what a
\* function that declares the parameter testing does is chosen by the value
\* of consts.TESTING when it is called.
Binding(op, w, choice) ==
    IF op.key = "T" THEN (IF w.testing THEN "testing" ELSE "not testing")
    ELSE choice

\* The except clauses of EscOperation.execute around the call of the
\* function, for the exception f that the function raised.
FunctionRaised(w, op, f) ==
    IF f.exc = "ValueError"
    THEN Raise(w, "FunctionExecutionError", <<"Domain error! Stack unchanged.">>)
    ELSE IF f.exc = "ZeroDivisionError"
    THEN Raise(w, "FunctionExecutionError",
               <<"Sorry, division by zero is against the law.">>)
    ELSE IF f.exc = "InvalidOperation"
    THEN Raise(w, "FunctionExecutionError",
               <<"That operation is not defined by the rules of arithmetic.">>)
    ELSE IF f.exc = "InsufficientItemsError"
    THEN InsufficientItemsOnStack(w, op, f.num)
    ELSE Raise(w, f.exc, f.msg)

\* The body of the transaction of EscOperation.execute.
ExecuteBody(w, op, choice) ==
    LET Called(a, f) ==
          IF f.exc # "" THEN FunctionRaised(a.w, op, f)
          ELSE StoreResults(a.w, op, a.out, f.ret)
        Retrieved(a, f) ==
          IF a.exc # "" THEN a ELSE [Called(a, f) EXCEPT !.fexc = f.exc]
        Arguments(a) == Retrieved(a, Function(op, a.out, Binding(op, a.w, choice)))
    IN Arguments(RetrieveArguments(w, op))

\* EscOperation.execute
Execute(w, op, choice) == Transaction(Memento(w.ss), ExecuteBody(w, op, choice))

(***************************************************************************)
(* Registry (esc/registers.py): a function from the names of the registers *)
(* that exist to the StackItems they hold.                                 *)
(***************************************************************************)
RegistryInit == [k \in {} |-> InitFull(0)]

Letters ==
    {"a", "b", "c", "d", "e", "f", "g", "h", "i", "j", "k", "l", "m", "n", "o", "p",
     "q", "r", "s", "t", "u", "v", "w", "x", "y", "z", "A", "B", "C", "D", "E", "F",
     "G", "H", "I", "J", "K", "L", "M", "N", "O", "P", "Q", "R", "S", "T", "U", "V",
     "W", "X", "Y", "Z"}

\* Registry._valid_name of a one-character name
ValidName(name) == name \in Letters

RegistrySet(reg, key, value) ==
    [k \in (DOMAIN reg) \cup {key} |-> IF k = key THEN value ELSE reg[k]]

RegistryDel(reg, key) == [k \in (DOMAIN reg) \ {key} |-> reg[k]]

(***************************************************************************)
(* The keystroke handlers of the session loop (esc/__main__.py).           *)
(***************************************************************************)
\* try_add_to_number for a character that util.is_number accepts.
TryAddToNumber(w, c) ==
    LET Added(r) ==
          IF r.exc # "" THEN r
          ELSE IF r.val = "False"
          THEN Res([r.w EXCEPT !.st =
                      StatusError(@, IF r.w.ss.editing_last_item
                                     THEN <<"No more precision available. ",
                                            "Consider scientific notation.">>
                                     ELSE <<"Stack is full.">>)],
                   "True")
          ELSE Res(r.w, "True")
    IN Added(AddCharacter(w, c))

EnterNewNumber(w) ==
    IF w.ss.editing_last_item THEN EnterNumber(w, None)
    ELSE Res([w EXCEPT !.st =
                StatusError(@, <<"No number to finish adding. ",
                                 "(Use 'd' to duplicate bos.)">>)],
             "False")

\* The branches of try_special for the undo and the redo keys.
TryUndo(w) ==
    LET Undone(r) ==
          IF r.val = "True" THEN r
          ELSE [r EXCEPT !.w.st = StatusError(@, <<"Nothing to undo.">>)]
    IN Undone(Undo(w))

TryRedo(w) ==
    LET Redone(r) ==
          IF r.val = "True" THEN r
          ELSE [r EXCEPT !.w.st = StatusError(@, <<"Nothing to redo.">>)]
    IN Redone(Redo(w))

\* store_register; reg_char is the character that _get_register_char reads.
StoreRegister(w, reg_char) ==
    IF w.ss.s = <<>>
    THEN Res([w EXCEPT !.st =
                StatusError(@, <<"You must have an item on the stack ",
                                 "to store to a register.">>)],
             "None")
    ELSE LET Entered(r, w1) ==
                IF r.exc # "" THEN r
                ELSE IF ~ValidName(reg_char)
                THEN Raise(w1, "RollbackTransaction",
                           <<"Register names must be uppercase or lowercase letters.">>)
                ELSE IF Bos(w1.ss) = None
                THEN Res([w1 EXCEPT !.st = StatusReady(@)], "None")
                ELSE Res([w1 EXCEPT !.reg = RegistrySet(@, reg_char, Bos(w1.ss)[1]),
                                    !.st = StatusReady(@)],
                         "None")
             Body(r) == Entered(r, [r.w EXCEPT !.st = StatusExpectingRegister(@)])
         IN Transaction(Memento(w.ss), Body(EnterNumber(w, None)))

RetrieveRegister(w, reg_char) ==
    LET Pushed(p) ==
          IF p.val = "False"
          THEN Raise(p.w, "RollbackTransaction", <<"Stack is full.">>)
          ELSE Res([p.w EXCEPT !.st = StatusReady(@)], "None")
        Entered(r, w1) ==
          IF r.exc # "" THEN r
          ELSE IF reg_char \notin DOMAIN w1.reg
          THEN Raise(w1, "RollbackTransaction",
                     <<"Register '", reg_char, "' does not exist.">>)
          ELSE Pushed(PushItems(w1, <<w1.reg[reg_char]>>, None))
        Body(r) == Entered(r, [r.w EXCEPT !.st = StatusExpectingRegister(@)])
    IN Transaction(Memento(w.ss), Body(EnterNumber(w, None)))

DeleteRegister(w, reg_char) ==
    LET Entered(r, w1) ==
          IF r.exc # "" THEN r
          ELSE IF reg_char \notin DOMAIN w1.reg
          THEN Raise(w1, "RollbackTransaction",
                     <<"Register '", reg_char, "' does not exist.">>)
          ELSE Res([w1 EXCEPT !.reg = RegistryDel(@, reg_char), !.st = StatusReady(@)],
                   "None")
        Body(r) == Entered(r, [r.w EXCEPT !.st = StatusExpectingRegister(@)])
    IN Transaction(Memento(w.ss), Body(EnterNumber(w, None)))

(***************************************************************************)
(* EscMenu (esc/commands.py).  The menus of the model are the main menu,   *)
(* the trig menu that esc/functions.py registers on the main menu, and a   *)
(* menu that a plugin registers on the trig menu.  A child of a menu is a  *)
(* menu or an operation.                                                   *)
(***************************************************************************)
QUIT_CHARACTER == "q"

MainMenu == "Main Menu"

TrigMenu == "trig menu"

PluginMenu == "plugin menu"

Menus == {MainMenu, TrigMenu, PluginMenu}

Parent(m) ==
    IF m = TrigMenu THEN Some(MainMenu)
    ELSE IF m = PluginMenu THEN Some(TrigMenu)
    ELSE None

IsMainMenu(m) == Parent(m) = None

ChildMenu(m) == [is_menu |-> TRUE, menu |-> m, op |-> Plugin]

ChildOperation(op) == [is_menu |-> FALSE, menu |-> "", op |-> op]

Children(m) ==
    IF m = MainMenu
    THEN [k \in {"t", "d", "f"} |->
            IF k = "t" THEN ChildMenu(TrigMenu)
            ELSE IF k = "d" THEN ChildOperation(Duplicate)
            ELSE ChildOperation(Plugin)]
    ELSE IF m = TrigMenu
    THEN [k \in {"m", "d"} |->
            IF k = "m" THEN ChildMenu(PluginMenu) ELSE ChildOperation(Duplicate)]
    ELSE [k \in {"f"} |-> ChildOperation(Plugin)]

\* The keys for which NotInMenuError gives a message without the key.
Specials == {" ", "\n", "\r", "\t"}

\* A version of NotInMenuError that gives the same message for every key;
\* C21_NotInMenu tells it from NotInMenuError.
NotInMenuErrorUnnamed(access_key) ==
    <<"The key you pressed doesn't mean anything to esc here.">>

NotInMenuError(access_key) ==
    IF access_key \in Specials
    THEN <<"The key you pressed doesn't mean anything to esc here.">>
    ELSE <<"There's no option '", access_key, "' in this menu.">>

\* A version of EscMenuExecute in which the quit key leads to the main menu
\* from every other menu; C20_Menu tells it from EscMenuExecute.
EscMenuExecuteQuitToMain(w, m, access_key, choice) ==
    LET Chosen(child) ==
          IF child.is_menu THEN Res(w, child.menu) ELSE Execute(w, child.op, choice)
    IN IF access_key = QUIT_CHARACTER
       THEN IF IsMainMenu(m) THEN Raise(w, "SystemExit", <<"0">>)
            ELSE Res(w, MainMenu)
       ELSE IF access_key \notin DOMAIN Children(m)
       THEN Raise(w, "NotInMenuError", NotInMenuError(access_key))
       ELSE Chosen(Children(m)[access_key])

\* EscMenu.execute: the value returned is the menu returned, or "None".
EscMenuExecute(w, m, access_key, choice) ==
    LET Chosen(child) ==
          IF child.is_menu THEN Res(w, child.menu) ELSE Execute(w, child.op, choice)
    IN IF access_key = QUIT_CHARACTER
       THEN IF IsMainMenu(m) THEN Raise(w, "SystemExit", <<"0">>)
            ELSE Res(w, Parent(m)[1])
       ELSE IF access_key \notin DOMAIN Children(m)
       THEN Raise(w, "NotInMenuError", NotInMenuError(access_key))
       ELSE Chosen(Children(m)[access_key])

(***************************************************************************)
(* EscCommand.register_child.  A table of children maps an access key to   *)
(* the description of the child registered under it and to the child's     *)
(* parent.  The outcome of a registration is the new table and the         *)
(* exception raised, if any.                                               *)
(***************************************************************************)
MenuDescription(m) == m

ChildDescription(child) ==
    IF child.is_menu THEN MenuDescription(child.menu) ELSE child.op.description[1][1]

LoadedChildren ==
    [m \in Menus |->
       [k \in DOMAIN Children(m) |->
          [description |-> ChildDescription(Children(m)[k]), parent |-> m]]]

NoChildren == [m \in Menus |-> <<>>]

\* The commands that the model registers: two under the key "d", so that a
\* key can be claimed twice, and one under the key "f".
Commands ==
    {[key |-> "d", description |-> "duplicate bos"],
     [key |-> "d", description |-> "double"],
     [key |-> "f", description |-> "plugin"]}

\* A version of RegisterChild in which the last command registered under a
\* key wins; C22_RegisterChild tells it from RegisterChild.
RegisterChildReplacing(table, m, child) ==
    [children |-> [k \in DOMAIN table \cup {child.key} |->
                     IF k = child.key
                     THEN [description |-> child.description, parent |-> m]
                     ELSE table[k]],
     exc |-> "", msg |-> <<>>]

RegisterChild(table, m, child) ==
    IF child.key \in DOMAIN table
    THEN [children |-> table, exc |-> "ProgrammingError",
          msg |-> <<"Cannot add '", child.description, "' as a child of '",
                    MenuDescription(m), "': the access key '", child.key,
                    "' is already in use for '", table[child.key].description,
                    "'.">>]
    ELSE [children |-> [k \in DOMAIN table \cup {child.key} |->
                          IF k = child.key
                          THEN [description |-> child.description, parent |-> m]
                          ELSE table[k]],
          exc |-> "", msg |-> <<>>]

(***************************************************************************)
(* Mode and the table MODES (esc/modes.py).  A mode is its value and its   *)
(* allowable values, None when every value is allowed.  The outcome of a   *)
(* call is the new table and the exception raised, if any.                 *)
(***************************************************************************)
TRIG_MODE_NAME == "trig_mode"

Mode(name, value, allowable_values) ==
    [name |-> name, value |-> value, allowable_values |-> allowable_values]

NoModes == <<>>

LoadedModes ==
    [name \in {TRIG_MODE_NAME} |->
       Mode(TRIG_MODE_NAME, "radians", Some({"degrees", "radians"}))]

ModesRegister(table, name, default_value, allowable_values) ==
    IF name \in DOMAIN table
    THEN [modes |-> table, exc |-> "ProgrammingError",
          msg |-> <<"Tried to re-register an existing mode {name}.">>]
    ELSE [modes |-> [k \in DOMAIN table \cup {name} |->
                       IF k = name THEN Mode(name, default_value, allowable_values)
                       ELSE table[k]],
          exc |-> "", msg |-> <<>>]

ModesSet(table, name, val) ==
    IF name \notin DOMAIN table
    THEN [modes |-> table, exc |-> "KeyError", msg |-> <<name>>]
    ELSE IF table[name].allowable_values # None /\ val \notin table[name].allowable_values[1]
    THEN [modes |-> table, exc |-> "ProgrammingError",
          msg |-> <<"Tried to set invalid mode ", val, " (valid values: ...)">>]
    ELSE [modes |-> [table EXCEPT ![name].value = val], exc |-> "", msg |-> <<>>]

ModesGet(table, name) == IF name \in DOMAIN table THEN Some(table[name].value) ELSE None

\* The mode changes of the trig menu.
Degrees == ModeChange("d", "degrees", TRIG_MODE_NAME, "degrees")
Radians == ModeChange("r", "radians", TRIG_MODE_NAME, "radians")

ModeChanges == {Degrees, Radians}

\* The table of modes after op has been executed on w: the function of a
\* mode change is called, and sets the mode, when the arguments were
\* retrieved; no step of execute or of simulated_result sets a mode back.
ModesAfter(table, w, op) ==
    IF RetrieveArguments(w, op).exc = ""
    THEN ModesSet(table, op.mode_name, op.to_value).modes
    ELSE table

(***************************************************************************)
(* TestCase (esc/functest.py).  A test case is its before values, its      *)
(* after values (None when not given) and the name of the exception it     *)
(* expects (None when not given).  The operation runs on a new StackState  *)
(* and a new Registry; the history and the status are those of the         *)
(* modules, shared with the session.                                       *)
(***************************************************************************)
TestCase(before, after, raises) == [before |-> before, after |-> after, raises |-> raises]

\* The truth value of the after values: None and the empty list are false.
Truthy(after) == after # None /\ after[1] # <<>>

\* isinstance(exception, type_) for the exception classes of the model.
IsInstance(exception, type_) ==
    \/ exception = type_
    \/ exception = "InsufficientItemsError" /\ type_ = "FunctionExecutionError"
    \/ type_ = "Exception"

\* _recursive_exception_instance, for the outcome r of an execution: the
\* exception raised and the exception of the function that it wraps.
RecursiveExceptionInstance(r, type_) ==
    \/ IsInstance(r.exc, type_)
    \/ r.fexc # "" /\ IsInstance(r.fexc, type_)

\* raise self._oops_it(problem, operation): repr(self) reads
\* self.raises.__name__ when self.after is false, an AttributeError when
\* self.raises is None; otherwise FunctionProgrammingError is constructed.
OopsIt(w, tc, problem) ==
    IF ~Truthy(tc.after) /\ tc.raises = None
    THEN Raise(w, "AttributeError", <<"'NoneType' object has no attribute '__name__'">>)
    ELSE Raise(w, FunctionProgrammingError, <<problem>>)

\* ss.as_decimal()
AsDecimal(sst) == [i \in 1..Len(sst.s) |-> sst.s[i].decimal]

\* TestCase.execute
TestCaseExecute(w, tc, operation, choice) ==
    LET end_dec == IF tc.after = None THEN <<>>
                   ELSE [i \in 1..Len(tc.after[1]) |-> Some(tc.after[1][i])]
        Globals(r) == [w EXCEPT !.hs = r.w.hs, !.st = r.w.st]
        Executed(r) ==
          IF r.exc # ""
          THEN IF tc.raises = None \/ ~RecursiveExceptionInstance(r, tc.raises[1])
               THEN OopsIt(Globals(r), tc, "failed a self-test: was raised")
               ELSE Res(Globals(r), "None")
          ELSE IF tc.raises # None
          THEN OopsIt(Globals(r), tc, "failed a self-test: was not raised")
          ELSE IF AsDecimal(r.w.ss) # end_dec
          THEN OopsIt(Globals(r), tc, "failed a self-test: Expected")
          ELSE Res(Globals(r), "None")
        Loaded(p) == Executed(Execute(p.w, operation, choice))
    IN IF Truthy(tc.after) /\ tc.raises # None
       THEN OopsIt(w, tc, "included both 'after' and 'raises' clauses")
       ELSE Loaded(PushDecimals([w EXCEPT !.ss = StackStateInit, !.reg = RegistryInit],
                                tc.before, None))

\* A version of HistoryClear that leaves the history as it is;
\* C26_SessionHistory tells it from HistoryClear.
HistoryClearNothing(w) == w

\* HistoricalStack.clear
HistoryClear(w) == [w EXCEPT !.hs = [undo_stack |-> <<>>, redo_stack |-> <<>>]]

\* StackState.last_n_items
LastNItems(sst, n) ==
    IF n = -1 THEN sst.s
    ELSE IF n = 0 THEN <<>>
    ELSE PySliceLast(sst.s, n)

\* StackState.last_operation
LastOperation(sst) ==
    IF sst.operation_history # <<>>
    THEN Some(sst.operation_history[Len(sst.operation_history)])
    ELSE None

\* A version of SimulatedResult that does not restore the checkpoint;
\* C27_SimulationRestores tells it from SimulatedResult.
SimulatedResultNotRestoring(w, op, simulate_allowed, choice) ==
    LET Simulated(r) ==
          IF r.exc = ""
          THEN [Res(r.w, "This calculation would occur:")
                  EXCEPT !.out = LastNItems(r.w.ss, op.push),
                         !.msg = IF LastOperation(r.w.ss) = None THEN <<"None">>
                                 ELSE LastOperation(r.w.ss)[1]]
          ELSE IF r.exc = "InsufficientItemsError"
          THEN [Res(r.w, "An error would occur. (At least") EXCEPT !.num = r.num]
          ELSE IF r.exc = "FunctionExecutionError"
          THEN Res(r.w, "An error would occur. (Most likely")
          ELSE r
    IN IF ~simulate_allowed
       THEN Res(w, "The author of this operation has disabled")
       ELSE Simulated(Execute(w, op, choice))

\* EscOperation.simulated_result: the value is the first words of the
\* description returned, out the results that the description lists.
SimulatedResult(w, op, simulate_allowed, choice) ==
    LET Simulated(r, checkpoint) ==
          IF r.exc = ""
          THEN [Res(Restore(r.w, checkpoint), "This calculation would occur:")
                  EXCEPT !.out = LastNItems(r.w.ss, op.push),
                         !.msg = IF LastOperation(r.w.ss) = None THEN <<"None">>
                                 ELSE LastOperation(r.w.ss)[1]]
          ELSE IF r.exc = "InsufficientItemsError"
          THEN [Res(Restore(r.w, checkpoint), "An error would occur. (At least")
                  EXCEPT !.num = r.num]
          ELSE IF r.exc = "FunctionExecutionError"
          THEN Res(Restore(r.w, checkpoint), "An error would occur. (Most likely")
          ELSE [r EXCEPT !.w = Restore(r.w, checkpoint)]
    IN IF ~simulate_allowed
       THEN Res(w, "The author of this operation has disabled")
       ELSE Simulated(Execute(w, op, choice), Memento(w.ss))

\* The end of an iteration of user_loop: menu.execute for the key of an
\* operation of the main menu, and what the loop does with its outcome.
MenuExecute(w, op, choice) ==
    LET Executed(r) ==
          IF r.exc \in {"FunctionExecutionError", "InsufficientItemsError"}
          THEN [r EXCEPT !.w.st = StatusError(@, r.msg), !.val = "caught"]
          ELSE IF r.exc = "" THEN [r EXCEPT !.w.st = StatusReady(@)]
          ELSE r
    IN Executed(Execute(w, op, choice))

(***************************************************************************)
(* The state machine.  ret records the last call made: the method or the   *)
(* handler, its key or character argument, its count argument, and its     *)
(* outcome.  running is false once an exception has left user_loop.  menu   *)
(* is the menu that user_loop displays at the top of an iteration.         *)
(* children holds the children that have been registered on each menu and  *)
(* modes is the table MODES of esc/modes.py.  phase is the position of     *)
(* main: "load_all", "test" (main_menu.test() is to be called or is        *)
(* running), "tested" (it has returned) or "user_loop".  TESTING is        *)
(* consts.TESTING, and frames holds the activations of EscMenu.test, the   *)
(* innermost last: the menu tested and the old_testing it keeps.           *)
(***************************************************************************)
World == [ss |-> ss, hs |-> hs, st |-> status, reg |-> registry, testing |-> TESTING]

Call(name, key, n, r) ==
    [call |-> name, key |-> key, n |-> n, val |-> r.val, exc |-> r.exc,
     msg |-> r.msg, num |-> r.num, fexc |-> r.fexc]

Apply(name, key, n, r) ==
    /\ running
    /\ ss' = r.w.ss
    /\ hs' = r.w.hs
    /\ status' = r.w.st
    /\ registry' = r.w.reg
    /\ ret' = Call(name, key, n, r)

Init ==
    /\ ss = StackStateInit
    /\ hs = HistoryInit
    /\ status = StatusInit
    /\ registry = RegistryInit
    /\ TESTING = FALSE
    /\ frames = <<>>
    /\ ret = Call("init", "", 0, Res(World, "None"))
    /\ running = TRUE
    /\ menu = MainMenu
    /\ children = LoadedChildren
    /\ modes = LoadedModes
    /\ phase = "user_loop"

\* The history and the operation log are unbounded in the program, and so is
\* the distance that failed pops put between stack_posn and the last item;
\* the model explores the steps that keep them within bounds.
Bounded(maxundo) ==
    /\ Len(hs.undo_stack) + Len(hs.redo_stack) <= maxundo
    /\ Len(ss.operation_history) <= MaxLog
    /\ Len(ss.s) - 1 - ss.stack_posn <= MaxDrift

\* A step that stays within the bounds.
Within(A) == A /\ Bounded(MaxUndo)'

\* A step that builds a stack, made while the history is empty.
Building(A) == hs = HistoryInit /\ Within(A)

(***************************************************************************)
(* Calls of the methods of StackState, of operations and of the history,   *)
(* as the tests of esc and the self-tests of its operations make them.     *)
(***************************************************************************)
\* The sequences of Decimals pushed directly.
PushSeqs == {<<5>>, <<5, 0>>}

MaxPop == 2

\* What the modules hold once the functions are loaded.
loaded == <<children, modes, phase, TESTING, frames>>

Method(name, key, n, r) == Apply(name, key, n, r) /\ UNCHANGED <<running, menu, loaded>>

DoAddCharacter(c) == Method("add_character", c, 0, AddCharacter(World, c))

DoBackspace == Method("backspace", "", 0, Backspace(World))

DoPush(decs) == Method("push", "", Len(decs), PushDecimals(World, decs, None))

DoPop(num, retain) ==
    Method("pop", IF retain THEN "retain" ELSE "", num, Pop(World, num, retain))

DoClear == Method("clear", "", 0, Clear(World))

\* with ss.transaction(): ss.push(decs); raise outcome  ("" raises nothing),
\* as the tests of the transaction do.
TransactionOutcomes == {"", "RollbackTransaction", "ValueError"}

DoTransaction(decs, outcome) ==
    LET Pushed(p) ==
          IF outcome = "" THEN p ELSE Raise(p.w, outcome, <<"I changed my mind.">>)
    IN Method("transaction", outcome, Len(decs),
              Transaction(Memento(ss), Pushed(PushDecimals(World, decs, None))))

DoEnterNumber == Method("enter_number", "", 0, EnterNumber(World, None))

DoCheckpointStack == Method("checkpoint_stack", "", 0, Res(CheckpointStack(World), "None"))

DoUndo == Method("undo", "", 0, Undo(World))

DoRedo == Method("redo", "", 0, Redo(World))

\* The executions of the model: only the function of the plugin operation
\* has a choice, and a quotient is a value of the model.
CanExecute(op, choice) ==
    /\ choice # "return" => op = Plugin
    /\ RetrieveArguments(World, op).exc = ""
         => Modelled(op, RetrieveArguments(World, op).out)

DoExecute(op, choice) ==
    /\ CanExecute(op, choice)
    /\ Method("execute", op.key, 0, Execute(World, op, choice))

\* The stack engine: a stack is built with any of the methods of StackState
\* while the history is empty; then numbers are entered, operations are
\* executed and changes are undone and redone.  Every item that
\* enter_number finishes is one that push can build, so that the stacks
\* that the steps after the building meet are all the stacks.
Next ==
    \/ \E c \in Chars : Building(DoAddCharacter(c))
    \/ Building(DoBackspace)
    \/ \E decs \in PushSeqs : Building(DoPush(decs))
    \/ \E num \in 0..MaxPop, retain \in BOOLEAN : Building(DoPop(num, retain))
    \/ Building(DoClear)
    \/ \E decs \in PushSeqs, outcome \in TransactionOutcomes :
         Building(DoTransaction(decs, outcome))
    \/ Within(DoEnterNumber)
    \/ Within(DoUndo)
    \/ Within(DoRedo)
    \/ \E op \in Operations, choice \in PluginChoices : Within(DoExecute(op, choice))

Spec == Init /\ [][Next]_vars

\* Operations and transactions on a stack built of pushed and typed items.
NextOperations ==
    \/ \E decs \in PushSeqs : ~ss.editing_last_item /\ Building(DoPush(decs))
    \/ \E c \in Chars : Building(DoAddCharacter(c))
    \/ \E decs \in PushSeqs, outcome \in TransactionOutcomes :
         Building(DoTransaction(decs, outcome))
    \/ \E op \in Operations, choice \in PluginChoices : Within(DoExecute(op, choice))
    \/ Within(DoUndo)
    \/ Within(DoRedo)

SpecOperations == Init /\ [][NextOperations]_vars

\* The history of a stack of typed numbers, as the tests of the history
\* build it, to the depth MaxHist.
MaxHist == 3

\* The digits typed there.
HistoryChars == {"0"}

NextHistory ==
    \/ \E c \in HistoryChars : DoAddCharacter(c) /\ Bounded(MaxHist)'
    \/ DoBackspace /\ Bounded(MaxHist)'
    \/ DoEnterNumber /\ Bounded(MaxHist)'
    \/ DoCheckpointStack /\ Bounded(MaxHist)'
    \/ DoUndo /\ Bounded(MaxHist)'
    \/ DoRedo /\ Bounded(MaxHist)'

SpecHistory == Init /\ [][NextHistory]_vars

\* pop(num) followed by push of the items that it returned.
DoPopPush(num) ==
    LET Popped(p) == PushItems(p.w, p.out, None)
    IN /\ num <= Len(ss.s)
       /\ Method("pop_push", "", num, Popped(Pop(World, num, FALSE)))

\* The methods of StackState called directly on a stack of pushed and typed
\* items, as the tests of StackState call them.
NextStack ==
    \/ \E c \in Chars : Within(DoAddCharacter(c))
    \/ Within(DoBackspace)
    \/ \E decs \in PushSeqs : Within(DoPush(decs))
    \/ \E num \in 0..MaxPop, retain \in BOOLEAN : Within(DoPop(num, retain))
    \/ Within(DoClear)
    \/ \E num \in 0..MaxPop : Within(DoPopPush(num))

SpecStack == Init /\ [][NextStack]_vars

\* The operations that store results, on stacks of pushed and typed items up
\* to the full stack.
NextStore ==
    \/ \E decs \in PushSeqs : ~ss.editing_last_item /\ Building(DoPush(decs))
    \/ \E c \in Chars : Building(DoAddCharacter(c))
    \/ \E op \in StoreOperations : Within(DoExecute(op, "return"))
    \/ Within(DoUndo)

SpecStore == Init /\ [][NextStore]_vars

(***************************************************************************)
(* The help on an operation: the operation is simulated on the stack of    *)
(* the session.                                                            *)
(***************************************************************************)
DoSimulatedResult(op, simulate_allowed, choice) ==
    /\ CanExecute(op, choice)
    /\ Method("simulated_result", op.key, 0,
              SimulatedResult(World, op, simulate_allowed, choice))

NextHelp ==
    \/ \E decs \in PushSeqs : ~ss.editing_last_item /\ Building(DoPush(decs))
    \/ \E c \in Chars : Building(DoAddCharacter(c))
    \/ \E num \in 1..MaxPop : Building(DoPop(num, FALSE))
    \/ \E op \in Operations, simulate_allowed \in BOOLEAN, choice \in PluginChoices :
         Within(DoSimulatedResult(op, simulate_allowed, choice))

SpecHelp == Init /\ [][NextHelp]_vars

(***************************************************************************)
(* Division under the precision of the context: numbers are pushed and     *)
(* the operation divide is executed on them, whatever the quotient.        *)
(***************************************************************************)
PrecisionValues == {1, 3, 4, 6, 7, 8}

\* The items are integers, as the operands of DecimalDivide are.
OperandsAreIntegers == \A i \in 1..Len(ss.s) : ss.s[i].is_entered => ~IsFraction(ss.s[i].decimal)

DoDivide ==
    /\ OperandsAreIntegers
    /\ Method("divide", Divide.key, 0, Execute(World, Divide, "return"))

NextPrecision ==
    \/ \E d \in PrecisionValues : Building(DoPush(<<d>>))
    \/ Within(DoDivide)

SpecPrecision == Init /\ [][NextPrecision]_vars

(***************************************************************************)
(* EscOperation.execute step by step.  ret is the frame of the execution:  *)
(* the operation, what its function will do, the step reached, the steps   *)
(* made, the checkpoint of the transaction, the arguments retrieved, the   *)
(* values returned, and how many times the function has been invoked.      *)
(* start is the world in which execute was called.                         *)
(***************************************************************************)
ExecutionEnded == ret.call = "execute_step" => ret.step \in {"committed", "rolledBack"}

InExecution(step) == ret.call = "execute_step" /\ ret.step = step

\* The stack state, the history, the status and the registers become
\* those of w.
Becomes(w) ==
    /\ running
    /\ ss' = w.ss
    /\ hs' = w.hs
    /\ status' = w.st
    /\ registry' = w.reg

\* The frame after a step that ended with the result r.
Stepped(step, r) ==
    [ret EXCEPT !.step = step, !.trace = Append(@, step), !.val = r.val,
                !.exc = r.exc, !.msg = r.msg, !.num = r.num]

\* The exception of r leaves the with block: the transaction rolls back.
RolledBack(r) ==
    /\ Becomes(Transaction(ret.checkpoint, r).w)
    /\ ret' = Stepped("rolledBack", Transaction(ret.checkpoint, r))

\* The step made without an exception.
Proceeded(step, r) ==
    /\ Becomes(r.w)
    /\ ret' = Stepped(step, r)

\* with ss.transaction():
ExecuteStart(op, choice) ==
    /\ running
    /\ ExecutionEnded
    /\ CanExecute(op, choice)
    /\ ret' = [call |-> "execute_step", key |-> op.key, n |-> 0, val |-> "None",
               exc |-> "", msg |-> <<>>, num |-> 0, fexc |-> "", op |-> op,
               choice |-> choice, step |-> "start", trace |-> <<"start">>,
               checkpoint |-> Memento(ss), start |-> World, args |-> <<>>,
               retvals |-> None, invoked |-> 0]
    /\ UNCHANGED <<ss, hs, status, registry, running, menu, loaded>>

\* args = self._retrieve_arguments(ss)
ExecuteRetrieveArguments ==
    LET Retrieved(r) ==
          IF r.exc # "" THEN RolledBack(r)
          ELSE /\ Becomes(r.w)
               /\ ret' = [Stepped("argumentsRetrieved", r) EXCEPT !.args = r.out]
    IN /\ InExecution("start")
       /\ Retrieved(RetrieveArguments(World, ret.op))
       /\ UNCHANGED <<running, menu, loaded>>

\* retvals = self.function(args, registry), with its except clauses
ExecuteFunction ==
    LET Invoked(f) ==
          IF f.exc # ""
          THEN /\ Becomes(Transaction(ret.checkpoint, FunctionRaised(World, ret.op, f)).w)
               /\ ret' = [Stepped("rolledBack",
                                  Transaction(ret.checkpoint,
                                              FunctionRaised(World, ret.op, f)))
                            EXCEPT !.invoked = @ + 1, !.fexc = f.exc]
          ELSE /\ Becomes(World)
               /\ ret' = [Stepped("functionInvoked", Res(World, "None"))
                            EXCEPT !.invoked = @ + 1, !.retvals = f.ret]
    IN /\ InExecution("argumentsRetrieved")
       /\ Invoked(Function(ret.op, ret.args, Binding(ret.op, World, ret.choice)))
       /\ UNCHANGED <<running, menu, loaded>>

\* self._store_results(ss, args, retvals, registry)
ExecuteStoreResults ==
    LET Stored(r) == IF r.exc # "" THEN RolledBack(r) ELSE Proceeded("resultsStored", r)
    IN /\ InExecution("functionInvoked")
       /\ Stored(StoreResults(World, ret.op, ret.args, ret.retvals))
       /\ UNCHANGED <<running, menu, loaded>>

\* The with block is left without an exception.
ExecuteCommit ==
    /\ InExecution("resultsStored")
    /\ Proceeded("committed", Res(World, "None"))
    /\ UNCHANGED <<running, menu, loaded>>

NextExecution ==
    \/ \E decs \in PushSeqs :
         ExecutionEnded /\ ~ss.editing_last_item /\ Building(DoPush(decs))
    \/ \E c \in Chars : ExecutionEnded /\ Building(DoAddCharacter(c))
    \/ \E op \in Operations, choice \in PluginChoices : ExecuteStart(op, choice)
    \/ Within(ExecuteRetrieveArguments)
    \/ Within(ExecuteFunction)
    \/ Within(ExecuteStoreResults)
    \/ Within(ExecuteCommit)

SpecExecution == Init /\ [][NextExecution]_vars

(***************************************************************************)
(* The session: one step is one iteration of user_loop, which marks the    *)
(* status as seen, reads a key and runs its handler.  An exception that    *)
(* leaves the handler leaves user_loop and ends the session.               *)
(***************************************************************************)
SessionOperations == {Duplicate, Plugin}

SessionChoices == {"return", "ValueError"}

UserLoop(name, key, r) ==
    /\ phase = "user_loop"
    /\ menu = MainMenu
    /\ Apply(name, key, 0, r)
    /\ running' = (r.exc = "" \/ r.val = "caught")
    /\ UNCHANGED <<menu, loaded>>

Seen == [World EXCEPT !.st = StatusMarkSeen(@)]

KeyNumber(c) == UserLoop("try_add_to_number", c, TryAddToNumber(Seen, c))

KeyEnter == UserLoop("enter_new_number", "", EnterNewNumber(Seen))

KeyBackspace == UserLoop("backspace", "", Backspace(Seen))

KeyUndo == UserLoop("undo", "", TryUndo(Seen))

KeyRedo == UserLoop("redo", "", TryRedo(Seen))

KeyStoreRegister(reg_char) ==
    UserLoop("store_register", reg_char, StoreRegister(Seen, reg_char))

KeyRetrieveRegister(reg_char) ==
    UserLoop("retrieve_register", reg_char, RetrieveRegister(Seen, reg_char))

KeyDeleteRegister(reg_char) ==
    UserLoop("delete_register", reg_char, DeleteRegister(Seen, reg_char))

KeyOperation(op, choice) ==
    /\ CanExecute(op, choice)
    /\ UserLoop("execute", op.key, MenuExecute(Seen, op, choice))

NextSession ==
    \/ \E c \in Chars : Within(KeyNumber(c))
    \/ Within(KeyEnter)
    \/ Within(KeyBackspace)
    \/ Within(KeyUndo)
    \/ Within(KeyRedo)
    \/ \E reg_char \in RegChars : Within(KeyStoreRegister(reg_char))
    \/ \E reg_char \in RegChars : Within(KeyRetrieveRegister(reg_char))
    \/ \E reg_char \in RegChars : Within(KeyDeleteRegister(reg_char))
    \/ \E op \in SessionOperations, choice \in SessionChoices :
         Within(KeyOperation(op, choice))

SpecSession == Init /\ [][NextSession]_vars

(***************************************************************************)
(* The session with its menus: an iteration of user_loop in which the key  *)
(* read reaches menu.execute.  In the main menu the characters of a number *)
(* and the special keys are handled before; in another menu every key      *)
(* reaches menu.execute, after status.in_menu().                           *)
(***************************************************************************)
MenuKeys == {QUIT_CHARACTER, "t", "m", "d", "f", "z", " "}

\* The keys that try_special handles in the main menu, among MenuKeys.
SpecialKeys == {" "}

Displayed == IF menu = MainMenu THEN Seen ELSE [Seen EXCEPT !.st = StatusInMenu(@)]

Caught(r) ==
    IF r.exc \in {"NotInMenuError", "FunctionExecutionError", "InsufficientItemsError"}
    THEN [r EXCEPT !.w.st = StatusError(@, r.msg), !.val = "caught"]
    ELSE IF r.exc = "" THEN [r EXCEPT !.w.st = StatusReady(@)]
    ELSE r

NextMenu(r) ==
    IF r.exc # "" THEN menu
    ELSE IF r.val = "None" THEN MainMenu
    ELSE r.val

RaisesIn(m, access_key, choice) ==
    \/ choice = "return"
    \/ /\ access_key \in DOMAIN Children(m)
       /\ ~Children(m)[access_key].is_menu
       /\ Children(m)[access_key].op = Plugin

KeyMenu(access_key, choice) ==
    LET Looped(r) ==
          /\ Apply("menu.execute", access_key, 0, Caught(r))
          /\ running' = (r.exc \in {"", "NotInMenuError", "FunctionExecutionError",
                                    "InsufficientItemsError"})
          /\ menu' = NextMenu(r)
          /\ UNCHANGED loaded
    IN /\ phase = "user_loop"
       /\ RaisesIn(menu, access_key, choice)
       /\ menu = MainMenu => access_key \notin SpecialKeys
       /\ Looped(EscMenuExecute(Displayed, menu, access_key, choice))

NextMenus ==
    \/ \E c \in Chars : Within(KeyNumber(c))
    \/ Within(KeyEnter)
    \/ \E access_key \in MenuKeys, choice \in SessionChoices :
         Within(KeyMenu(access_key, choice))

SpecMenus == Init /\ [][NextMenus]_vars

(***************************************************************************)
(* The loading of the functions: commands are registered on the menus, in  *)
(* any order.  The engine is not used.                                     *)
(***************************************************************************)
InitLoading ==
    /\ ss = StackStateInit
    /\ hs = HistoryInit
    /\ status = StatusInit
    /\ registry = RegistryInit
    /\ TESTING = FALSE
    /\ frames = <<>>
    /\ ret = Call("init", "", 0, Res(World, "None"))
    /\ running = TRUE
    /\ menu = MainMenu
    /\ children = NoChildren
    /\ modes = NoModes
    /\ phase = "load_all"

DoRegisterChild(m, child) ==
    LET Registered(r) ==
          /\ children' = [children EXCEPT ![m] = r.children]
          /\ ret' = [call |-> "register_child", key |-> child.key, n |-> 0,
                     val |-> "None", exc |-> r.exc, msg |-> r.msg,
                     num |-> 0, fexc |-> ""]
    IN /\ running
       /\ Registered(RegisterChild(children[m], m, child))
       /\ UNCHANGED <<ss, hs, status, registry, running, menu, modes, phase, TESTING,
                      frames>>

NextLoading == \E m \in Menus, child \in Commands : DoRegisterChild(m, child)

SpecLoading == InitLoading /\ [][NextLoading]_vars

(***************************************************************************)
(* The modes: modes are registered and set, in any order.  The engine is   *)
(* not used.                                                               *)
(***************************************************************************)
ModeNames == {TRIG_MODE_NAME, "plugin_mode"}

ModeValues == {"degrees", "radians", "gradians"}

AllowableValues == {None, Some({"degrees", "radians"})}

ModesCall(name, key, val, r) ==
    /\ running
    /\ modes' = r.modes
    /\ ret' = [call |-> name, key |-> key, n |-> 0, val |-> val, exc |-> r.exc,
               msg |-> r.msg, num |-> 0, fexc |-> ""]
    /\ UNCHANGED <<ss, hs, status, registry, running, menu, children, phase, TESTING,
                   frames>>

DoModesRegister(name, default_value, allowable_values) ==
    ModesCall("modes.register", name, default_value,
              ModesRegister(modes, name, default_value, allowable_values))

DoModesSet(name, val) == ModesCall("modes.set", name, val, ModesSet(modes, name, val))

NextModes ==
    \/ \E name \in ModeNames, default_value \in ModeValues,
          allowable_values \in AllowableValues :
         DoModesRegister(name, default_value, allowable_values)
    \/ \E name \in ModeNames, val \in ModeValues : DoModesSet(name, val)

SpecModes == InitLoading /\ [][NextModes]_vars

(***************************************************************************)
(* main: after the functions are loaded, the test cases of the operations  *)
(* are executed (main_menu.test()), the history is cleared, the StackState *)
(* and the Registry of the session are made and user_loop starts.  A test  *)
(* case that raises ends main.                                             *)
(***************************************************************************)
TestBefores == {<<6, 2>>, <<6, 0>>, <<6>>}

TestAfters == {None, Some(<<>>), Some(<<3>>), Some(<<4>>), Some(<<6, 1>>)}

TestRaises == {None, Some("ZeroDivisionError"), Some("FunctionExecutionError"),
               Some("ValueError")}

TestOperations == {Divide, ClearStack, Plugin, PluginTesting}

TestChoices == {"return", "ValueError"}

InitMain ==
    /\ ss = StackStateInit
    /\ hs = HistoryInit
    /\ status = StatusInit
    /\ registry = RegistryInit
    /\ TESTING = FALSE
    /\ frames = <<>>
    /\ ret = Call("init", "", 0, Res(World, "None"))
    /\ running = TRUE
    /\ menu = MainMenu
    /\ children = LoadedChildren
    /\ modes = LoadedModes
    /\ phase = "test"

\* finally: consts.TESTING = old_testing
TestFinally(old_testing) == old_testing

\* EscMenu.test of the menu m is entered: main calls it for the main menu,
\* and the test of a menu calls it for each child that is a menu.
MenuTest(m) ==
    /\ running
    /\ phase = "test"
    /\ IF frames = <<>> THEN m = MainMenu
       ELSE Parent(m) = Some(frames[Len(frames)].menu)
    /\ frames' = Append(frames, [menu |-> m, old_testing |-> TESTING])
    /\ TESTING' = TRUE
    /\ ret' = [call |-> "EscMenu.test", key |-> m, n |-> Len(frames), val |-> "None",
               exc |-> "", msg |-> <<>>, num |-> 0, fexc |-> ""]
    /\ UNCHANGED <<ss, hs, status, registry, running, menu, children, modes, phase>>

\* The loop over the children is over: EscMenu.test returns through its
\* finally clause, and the test of the main menu returns to main.
MenuTestReturn ==
    /\ running
    /\ phase = "test"
    /\ frames # <<>>
    /\ TESTING' = TestFinally(frames[Len(frames)].old_testing)
    /\ frames' = SubSeq(frames, 1, Len(frames) - 1)
    /\ phase' = IF Len(frames) = 1 THEN "tested" ELSE phase
    /\ ret' = [call |-> "EscMenu.test returns", key |-> frames[Len(frames)].menu,
               n |-> Len(frames) - 1, val |-> "None", exc |-> "", msg |-> <<>>,
               num |-> 0, fexc |-> ""]
    /\ UNCHANGED <<ss, hs, status, registry, running, menu, children, modes>>

\* EscOperation.test of a child of the menu being tested executes a test
\* case.  The exception of a test case that fails leaves every EscMenu.test
\* through its finally clause, the outermost last, and then main.
DoTestCase(tc, operation, choice) ==
    LET Tested(r) ==
          /\ running
          /\ ss' = r.w.ss
          /\ hs' = r.w.hs
          /\ status' = r.w.st
          /\ registry' = r.w.reg
          /\ ret' = [call |-> "TestCase.execute", key |-> operation.key,
                     n |-> Len(tc.before), val |-> r.val, exc |-> r.exc,
                     msg |-> r.msg, num |-> r.num, fexc |-> r.fexc, tc |-> tc,
                     choice |-> choice]
          /\ running' = (r.exc = "")
          /\ IF r.exc = "" THEN UNCHANGED <<TESTING, frames>>
             ELSE /\ TESTING' = TestFinally(frames[1].old_testing)
                  /\ frames' = <<>>
    IN /\ phase = "test"
       /\ frames # <<>>
       /\ choice # "return" => operation = Plugin
       /\ Tested(TestCaseExecute(World, tc, operation, choice))
       /\ UNCHANGED <<menu, children, modes, phase>>

DoHistoryClear ==
    /\ phase = "tested"
    /\ Apply("hs.clear", "", 0, Res(HistoryClear(World), "None"))
    /\ phase' = "user_loop"
    /\ UNCHANGED <<running, menu, children, modes, TESTING, frames>>

NextMain ==
    \/ \E before \in TestBefores, after \in TestAfters, raises \in TestRaises,
          operation \in TestOperations, choice \in TestChoices :
         Within(DoTestCase(TestCase(before, after, raises), operation, choice))
    \/ \E m \in Menus : MenuTest(m)
    \/ MenuTestReturn
    \/ DoHistoryClear
    \/ \E c \in Chars : Within(KeyNumber(c))
    \/ Within(KeyEnter)
    \/ Within(KeyUndo)
    \/ Within(KeyRedo)
    \/ \E op \in SessionOperations \cup {PluginTesting} :
         Within(KeyOperation(op, "return"))

SpecMain == InitMain /\ [][NextMain]_vars

(***************************************************************************)
(* Properties.  The contract of a method is stated of the result that the  *)
(* method gives in every reachable state; ret tells which call led to a    *)
(* state.                                                                  *)
(***************************************************************************)
Top(seq) == seq[Len(seq)]

MsgNames(msg, word) == \E i \in 1..Len(msg) : msg[i] = word

NeedsAtLeast(key, p) ==
    <<"'", key, "' needs at least ">> \o NatStr(p)
      \o <<IF p = 1 THEN " item" ELSE " items", " on stack.">>

\* The text of the item being edited, if any, is a valid number.
PendingEntryValid ==
    ss.editing_last_item => Bos(ss) # None /\ FinishEntry(Bos(ss)[1]).val

C2_StackDepth ==
    /\ Len(ss.s) <= STACKDEPTH
    /\ \A decs \in PushSeqs :
           Len(ss.s) + Len(decs) > STACKDEPTH =>
               LET r == PushDecimals(World, decs, None) IN
               r.val = "False" /\ r.exc = "" /\ r.w.ss = ss

\* C2, witness: a push of two values was refused on a stack with one free
\* place.
C2_PushRefused ==
    /\ ret.call = "push"
    /\ ret.n = 2
    /\ ret.val = "False"
    /\ Len(ss.s) = STACKDEPTH - 1

\* execute() failed with the insufficient-items error for p items.
Insufficient(r, op, p) ==
    /\ r.exc = "InsufficientItemsError"
    /\ r.num = p
    /\ r.msg = NeedsAtLeast(op.key, p)
    /\ Memento(r.w.ss) = Memento(ss)

\* C3, as stated: an operation that pops p > 0 items, executed on a stack of
\* fewer than p items, fails with the insufficient-items error carrying p,
\* its message naming the key and "at least p item(s)", the engine
\* unchanged; and so it is when the function of a whole-stack operation
\* signals insufficient items.
C3_TooFewItemsAlways ==
    \A op \in Operations, choice \in PluginChoices :
        CanExecute(op, choice) =>
            LET r == Execute(World, op, choice) IN
            /\ op.pop > 0 /\ Len(ss.s) < op.pop => Insufficient(r, op, op.pop)
            /\ op.pop = -1 /\ r.fexc = "InsufficientItemsError" => Insufficient(r, op, 1)

\* C3, amended: the same, provided that the text of an item being typed is
\* a valid number (when it is not, execute() fails with the execution error
\* of the entry, before it counts the items).
C3_InsufficientItems ==
    \A op \in Operations, choice \in PluginChoices :
        CanExecute(op, choice) =>
            LET r == Execute(World, op, choice) IN
            /\ op.pop > 0 /\ Len(ss.s) < op.pop /\ PendingEntryValid
                 => Insufficient(r, op, op.pop)
            /\ op.pop = -1 /\ r.fexc = "InsufficientItemsError" => Insufficient(r, op, 1)

\* C3, witness: divide was executed on a stack of one item and failed for
\* want of two.
C3_DivideOfOneItem ==
    /\ ret.call = "execute"
    /\ ret.key = "/"
    /\ ret.exc = "InsufficientItemsError"
    /\ ret.num = 2
    /\ ret.msg = NeedsAtLeast("/", 2)
    /\ Len(ss.s) = 1

\* execute() failed with the execution error of message msg.
Failed(r, msg) ==
    /\ r.exc = "FunctionExecutionError"
    /\ r.msg = msg
    /\ Memento(r.w.ss) = Memento(ss)

\* C4: when the bound function raises ValueError, ZeroDivisionError or
\* decimal.InvalidOperation, execute() raises FunctionExecutionError with the
\* fixed message of that error, and the stack is what it was before the call.
C4_ArithmeticErrors ==
    \A op \in Operations, choice \in PluginChoices :
        CanExecute(op, choice) =>
            LET r == Execute(World, op, choice) IN
            /\ r.fexc = "ValueError" => Failed(r, <<"Domain error! Stack unchanged.">>)
            /\ r.fexc = "ZeroDivisionError"
                 => Failed(r, <<"Sorry, division by zero is against the law.">>)
            /\ r.fexc = "InvalidOperation"
                 => Failed(r, <<"That operation is not defined by the rules of arithmetic.">>)

\* C4, witness: divide was executed on [5, 0], failed for the division by
\* zero, and the stack is [5, 0].
C4_FiveByZero ==
    /\ ret.call = "execute"
    /\ ret.key = "/"
    /\ ret.fexc = "ZeroDivisionError"
    /\ ret.exc = "FunctionExecutionError"
    /\ ret.msg = <<"Sorry, division by zero is against the law.">>
    /\ ss.s = <<InitFull(5), InitFull(0)>>

\* The last item is being typed and its text is not a valid number.
InvalidEntry ==
    /\ ss.editing_last_item
    /\ Bos(ss) # None
    /\ ~Bos(ss)[1].is_entered
    /\ ~ValidNumber(Bos(ss)[1].string)

\* C5: when the last item is being typed and its text is not a valid
\* number, execute() fails with an execution error whose message names the
\* key of the operation, and the engine is unchanged: the item is partial
\* with the same text and the edit flag is true.
C5_InvalidEntry ==
    InvalidEntry =>
        \A op \in Operations, choice \in PluginChoices :
            CanExecute(op, choice) =>
                LET r == Execute(World, op, choice) IN
                /\ r.exc = "FunctionExecutionError"
                /\ MsgNames(r.msg, op.key)
                /\ r.w.ss = ss

\* C5, witness: an operation was executed while "e" was being typed, failed
\* naming its key, and "e" is still being typed.
C5_StillTyping ==
    /\ ret.call = "execute"
    /\ ret.exc = "FunctionExecutionError"
    /\ MsgNames(ret.msg, ret.key)
    /\ InvalidEntry
    /\ Bos(ss)[1].string = <<"e">>

\* C6: a transaction whose body raises RollbackTransaction with a message
\* restores the memento taken on entry, raises nothing, and leaves the
\* message as the error of the status after the transaction.
C6_Rollback ==
    [][ret'.call = "transaction" /\ ret'.key = "RollbackTransaction" =>
           /\ ret'.exc = ""
           /\ Memento(ss') = Memento(ss)
           /\ status'.error_state = "ERROR"
           /\ ~status'.error_seen
           /\ status'.override_msg = <<"I changed my mind.">>]_vars

\* C6, witness: a transaction that pushed onto a stack that was not being
\* edited was rolled back, so that the restore made the status ready, and
\* the status shows the error.
C6_RolledBack ==
    /\ ret.call = "transaction"
    /\ ret.key = "RollbackTransaction"
    /\ ret.exc = ""
    /\ ss.s # <<>>
    /\ status.state = "READY"
    /\ status.error_state = "ERROR"

\* C7: whenever undo succeeds, a redo that follows it at once succeeds and
\* restores the engine to the state it had before the undo.
C7_UndoRedo ==
    LET u == Undo(World)
        r == Redo(u.w) IN
    u.val = "True" => r.val = "True" /\ r.exc = "" /\ Memento(r.w.ss) = Memento(ss)

\* C7, witness: a redo succeeded (after an undo) on a stack that holds items.
C7_Redone ==
    /\ ret.call = "redo"
    /\ ret.val = "True"
    /\ ss.s # <<>>
    /\ hs.undo_stack # <<>>

\* Three numbers have been entered, the third just now.
ThreeEntries ==
    /\ ret.call = "enter_number"
    /\ ret.val = "True"
    /\ Len(ss.s) = 3
    /\ \A i \in 1..3 : ss.s[i].is_entered
    /\ ~ss.editing_last_item

CheckpointedHere(r) ==
    /\ r.w.hs.undo_stack # <<>>
    /\ Top(r.w.hs.undo_stack) = Memento(ss)
    /\ Undo(r.w).val = "True"
    /\ Memento(Undo(r.w).w.ss) = Memento(ss)

\* C9: for every user action that checkpoints (finishing the entry of a
\* number, executing an operation, storing, retrieving and deleting a
\* register) in an engine state S, the top of the undo stack after the
\* action is S, and an undo right after the action restores S, a partially
\* typed last item included.
C9_CheckpointBeforeAction ==
    /\ ss.editing_last_item => CheckpointedHere(EnterNewNumber(Seen))
    /\ \A op \in Operations, choice \in PluginChoices :
           CanExecute(op, choice) => CheckpointedHere(MenuExecute(Seen, op, choice))
    /\ \A reg_char \in RegChars :
           /\ ss.s # <<>> => CheckpointedHere(StoreRegister(Seen, reg_char))
           /\ CheckpointedHere(RetrieveRegister(Seen, reg_char))
           /\ CheckpointedHere(DeleteRegister(Seen, reg_char))

\* C9, witness: the item being typed was stored to a register, and the top
\* of the undo stack is the stack with the item partially typed.
C9_StoredWhileTyping ==
    /\ ret.call = "store_register"
    /\ ret.exc = ""
    /\ "a" \in DOMAIN registry
    /\ ~ss.editing_last_item
    /\ hs.undo_stack # <<>>
    /\ Top(hs.undo_stack).editing_last_item
    /\ Top(hs.undo_stack).s # ss.s

\* C10: checkpoint_stack leaves the redo stack empty, and pushes the memento
\* of the engine onto the undo stack exactly when the undo stack was empty
\* or its top differed from the memento; so a checkpoint repeated with no
\* change of the engine adds nothing.
C10_Checkpoint ==
    LET w1 == CheckpointStack(World)
        differs == hs.undo_stack = <<>> \/ Top(hs.undo_stack) # Memento(ss) IN
    /\ w1.hs.redo_stack = <<>>
    /\ differs => w1.hs.undo_stack = Append(hs.undo_stack, Memento(ss))
    /\ ~differs => w1.hs.undo_stack = hs.undo_stack
    /\ w1.ss = ss
    /\ CheckpointStack(w1).hs = w1.hs

\* C10, witness: checkpoint_stack was called while an item was being typed,
\* and the undo stack holds the memento of the engine on top of an older
\* one, the redo stack empty.
C10_CheckpointedWhileTyping ==
    /\ ret.call = "checkpoint_stack"
    /\ hs.redo_stack = <<>>
    /\ Len(hs.undo_stack) >= 2
    /\ Top(hs.undo_stack) = Memento(ss)
    /\ ss.editing_last_item

\* The values that n consecutive calls of undo, and of redo, return.
RECURSIVE UndoRun(_, _)
UndoRun(w, n) ==
    IF n = 0 THEN <<>> ELSE <<Undo(w).val>> \o UndoRun(Undo(w).w, n - 1)

RECURSIVE RedoRun(_, _)
RedoRun(w, n) ==
    IF n = 0 THEN <<>> ELSE <<Redo(w).val>> \o RedoRun(Redo(w).w, n - 1)

\* k successes and then a failure.
SucceedsTimes(k) == [i \in 1..(k + 1) |-> IF i <= k THEN "True" ELSE "False"]

\* C11: undo with an empty undo stack returns False and leaves the engine,
\* the undo stack and the redo stack as they were, and so does redo with an
\* empty redo stack; from an undo stack of length k exactly k consecutive
\* undos succeed and the next one fails, and likewise for redo.
C11_UndoBeyond ==
    /\ hs.undo_stack = <<>> => Undo(World) = Res(World, "False")
    /\ hs.redo_stack = <<>> => Redo(World) = Res(World, "False")
    /\ UndoRun(World, Len(hs.undo_stack) + 1) = SucceedsTimes(Len(hs.undo_stack))
    /\ RedoRun(World, Len(hs.redo_stack) + 1) = SucceedsTimes(Len(hs.redo_stack))

\* C11, witness: two undos succeeded and a third was refused.
C11_ThirdUndoRefused ==
    /\ ret.call = "undo"
    /\ ret.val = "False"
    /\ hs.undo_stack = <<>>
    /\ Len(hs.redo_stack) = 2

\* C12, as stated: pop(num) with retain false and num greater than the
\* number of items returns None and leaves the items, the cursor index, the
\* edit flag and the operation log as they were.
C12_PopTooManyUnchanged ==
    \A num \in 0..MaxPop :
        num > Len(ss.s) =>
            LET r == Pop(World, num, FALSE) IN
            r.val = "None" /\ r.exc = "" /\ r.w.ss = ss

\* C12, witness: a pop of more items than the stack held returned None and
\* moved the cursor index down by that number of items.
C12_PopRefusedMovedCursor ==
    /\ ret.call = "pop"
    /\ ret.key = ""
    /\ ret.n > Len(ss.s)
    /\ ret.val = "None"
    /\ ss.stack_posn = Len(ss.s) - 1 - ret.n

\* C13: for 0 <= num <= len(s), pop(num, retain) returns the last num items
\* in stack order; with retain false exactly those items are removed and the
\* items that remain keep their order, with retain true the engine is
\* unchanged; pop(0) returns the empty list and removes nothing.
C13_Pop ==
    \A num \in 0..MaxPop, retain \in BOOLEAN :
        num <= Len(ss.s) =>
            LET r == Pop(World, num, retain) IN
            /\ r.val = "list" /\ r.exc = ""
            /\ r.out = [i \in 1..num |-> ss.s[Len(ss.s) - num + i]]
            /\ retain => r.w = World
            /\ ~retain => r.w.ss.s = [i \in 1..(Len(ss.s) - num) |-> ss.s[i]]
            /\ num = 0 => r.out = <<>> /\ r.w.ss.s = ss.s

\* C13, witness: two of three items were popped and the first was left.
C13_PoppedTwoOfThree ==
    /\ ret.call = "pop"
    /\ ret.key = ""
    /\ ret.n = 2
    /\ ret.val = "list"
    /\ Len(ss.s) = STACKDEPTH - 2
    /\ ss.stack_posn = Len(ss.s) - 1

\* C14: for num <= len(s), pop(num) followed by push of the items returned
\* leaves the items, in their order and with their values, and the cursor
\* index as they were before the pop.
C14_PopPush ==
    [][ret'.call = "pop_push" =>
           /\ ret'.val = "True"
           /\ ss'.s = ss.s
           /\ ss'.stack_posn = ss.stack_posn]_vars

\* C14, witness: two items of a full stack were popped and pushed back.
C14_TwoPushedBack ==
    /\ ret.call = "pop_push"
    /\ ret.n = 2
    /\ ret.val = "True"
    /\ Len(ss.s) = STACKDEPTH

\* C15: after an enter_number that finished an entry and returned True, an
\* enter_number that follows it with nothing in between returns False and
\* leaves the items, the cursor index, the edit flag and the operation log
\* as they were.
C15_EnterTwice ==
    [][/\ ret.call = "enter_number" /\ ret.val = "True"
       /\ ret'.call = "enter_number"
       => ret'.val = "False" /\ ret'.exc = "" /\ ss' = ss]_vars

\* C15, witness: the first enter_number checkpointed the entry being typed
\* and finished it, and the second one only checkpointed the finished
\* entry.
C15_EnteredTwice ==
    /\ ret.call = "enter_number"
    /\ ret.val = "False"
    /\ Len(hs.undo_stack) = 2
    /\ hs.undo_stack[1].editing_last_item
    /\ Len(hs.undo_stack[1].s) = Len(ss.s)
    /\ hs.undo_stack[2] = Memento(ss)
    /\ ~ss.editing_last_item
    /\ Bos(ss) # None
    /\ Bos(ss)[1].is_entered

\* The Decimal of the i-th item (None for an item that was never finished)
\* once enter_number has finished a valid pending entry.
DecimalAt(i) ==
    IF ss.editing_last_item /\ i = PyIdx(ss.s, ss.stack_posn)
    THEN FinishEntry(ss.s[i]).item.decimal
    ELSE ss.s[i].decimal

\* C16: for an operation whose function declares k stack parameters, execute
\* binds the i-th declared parameter to the i-th of the last k items of the
\* stack, the deepest first, and leaves the items below those k as they
\* were; divide, f(sos, bos), so leaves sos / bos on top of them.
C16_Binding ==
    \A op \in Operations :
        LET parms == StackParms(op)
            k == Len(parms)
            below == Len(ss.s) - k
            a == RetrieveArguments(World, op)
            b == Wrapper(op, a.out) IN
        k > 0 /\ below >= 0 /\ PendingEntryValid /\ a.exc = "" =>
            /\ DOMAIN b = {parms[i] : i \in 1..k}
            /\ \A i \in 1..k : b[parms[i]] = DecimalAt(below + i)
            /\ \A choice \in PluginChoices :
                   CanExecute(op, choice) =>
                       LET r == Execute(World, op, choice) IN
                       /\ Len(r.w.ss.s) >= below
                       /\ \A i \in 1..below : r.w.ss.s[i] = ss.s[i]
                       /\ (/\ op = Divide
                           /\ DecimalAt(below + 1) # None
                           /\ DecimalAt(below + 2) # None
                           /\ DecimalAt(below + 2)[1] # 0)
                          => /\ r.exc = ""
                             /\ Len(r.w.ss.s) = below + 1
                             /\ r.w.ss.s[below + 1] =
                                  InitFull(DecimalAt(below + 1)[1]
                                             \div DecimalAt(below + 2)[1])

\* C16, witness: divide ran on the stack [5, 0, 5] with sos = 0 and bos = 5
\* and left [5, 0].
C16_ZeroByFive ==
    /\ ret.call = "execute"
    /\ ret.key = "/"
    /\ ret.exc = ""
    /\ ss.s = <<InitFull(5), InitFull(0)>>
    /\ ss.operation_history = <<<<"0", " ", "/", " ", "5", " = ", "0">>>>

\* The items that push makes of the values that a function returned.
ItemsOf(return_values) ==
    IF return_values = None THEN <<>>
    ELSE [i \in 1..Len(return_values[1]) |-> InitFull(return_values[1][i][1])]

\* What an operation that takes the whole stack is called with and leaves,
\* when the results it returns number at most maxresults.
WholeStack(op, maxresults) ==
    LET entered == EnterNumber(World, Some(op.key)).w.ss.s
        a == RetrieveArguments(World, op)
        f == Function(op, a.out, "return")
        r == Execute(World, op, "return") IN
    /\ a.exc = "" => a.out = entered
    /\ (/\ r.exc = "" /\ r.fexc = ""
        /\ Len(IF op.retain THEN entered ELSE <<>>) + Len(ItemsOf(f.ret)) <= maxresults)
       => r.w.ss.s = (IF op.retain THEN entered ELSE <<>>) \o ItemsOf(f.ret)

\* C17, as stated: an operation with pop = -1 is called with the whole stack,
\* bottom first; with retain false the stack is cleared before the results
\* are stored, so that after a successful execute the stack is exactly the
\* values returned; with retain true the items stay in place below the
\* results.
C17_WholeStack ==
    \A op \in StoreOperations :
        op.pop = -1 /\ PendingEntryValid => WholeStack(op, STACKDEPTH + 1)

\* C17, witness: the plugin operation that counts the items, which retains
\* them, returned normally on a full stack, and the stack holds no result
\* and the operation log no description.
C17_CountLost ==
    /\ ret.call = "execute"
    /\ ret.key = "n"
    /\ ret.exc = ""
    /\ Len(ss.s) = STACKDEPTH
    /\ ss.operation_history = <<>>
    /\ \A i \in 1..Len(ss.s) : ss.s[i] = InitFull(5)

\* The part of C17 that the code keeps: the same, for results that fit.
WholeStackThatFits ==
    \A op \in StoreOperations :
        op.pop = -1 /\ PendingEntryValid => WholeStack(op, STACKDEPTH)

\* C18, as stated: an operation with pop >= 0, retaining or not, whose
\* results would not fit within STACKDEPTH raises the 'stack is too full'
\* execution error and leaves the engine as it was, and execute never
\* returns normally without the results on the stack.
C18_TooFull ==
    \A op \in StoreOperations :
        LET entered == EnterNumber(World, Some(op.key)).w.ss.s
            kept == IF op.retain THEN Len(entered) ELSE Len(entered) - op.pop
            f == Function(op, RetrieveArguments(World, op).out, "return")
            r == Execute(World, op, "return") IN
        op.pop >= 0 /\ PendingEntryValid /\ Len(entered) >= op.pop =>
            /\ kept + op.push > STACKDEPTH =>
                   /\ r.exc = "FunctionExecutionError"
                   /\ Len(r.msg) > 2 /\ r.msg[3] = "': stack is too full (short "
                   /\ Memento(r.w.ss) = Memento(ss)
            /\ r.exc = "" =>
                   /\ Len(r.w.ss.s) = kept + op.push
                   /\ \A i \in 1..op.push :
                          r.w.ss.s[kept + i] = ItemsOf(f.ret)[i]

\* C18, witness: the plugin operation that copies bos, which retains it,
\* returned normally on a full stack, and the stack holds no copy and the
\* operation log no description.
C18_CopyLost ==
    /\ ret.call = "execute"
    /\ ret.key = "k"
    /\ ret.exc = ""
    /\ Len(ss.s) = STACKDEPTH
    /\ ss.operation_history = <<>>
    /\ \A i \in 1..Len(ss.s) : ss.s[i] = InitFull(5)

\* The part of C18 that the code keeps: the same, for the operations that
\* do not retain their arguments.
TooFullWithoutRetain ==
    \A op \in StoreOperations :
        LET entered == EnterNumber(World, Some(op.key)).w.ss.s
            kept == Len(entered) - op.pop
            f == Function(op, RetrieveArguments(World, op).out, "return")
            r == Execute(World, op, "return") IN
        op.pop >= 0 /\ ~op.retain /\ PendingEntryValid /\ Len(entered) >= op.pop =>
            /\ kept + op.push > STACKDEPTH =>
                   /\ r.exc = "FunctionExecutionError"
                   /\ Len(r.msg) > 2 /\ r.msg[3] = "': stack is too full (short "
                   /\ Memento(r.w.ss) = Memento(ss)
            /\ r.exc = "" =>
                   /\ Len(r.w.ss.s) = kept + op.push
                   /\ \A i \in 1..op.push :
                          r.w.ss.s[kept + i] = ItemsOf(f.ret)[i]

\* execute of op appends exactly the description of what it did to the
\* operation log when it returns, and nothing when it raises.
LogsOnce(op, choice) ==
    LET a == RetrieveArguments(World, op)
        f == Function(op, a.out, choice)
        d == DescribeOperation(op, a.out,
                               IF f.ret = None THEN <<>> ELSE f.ret[1])
        r == Execute(World, op, choice) IN
    IF r.exc = ""
    THEN d.exc = "" /\ r.w.ss.operation_history = Append(ss.operation_history, d.text)
    ELSE r.w.ss.operation_history = ss.operation_history

\* C19, as stated: every execute that returns without raising appends
\* exactly one generated description to the operation log, with the results
\* it pushes or on its own when it pushes nothing; an execute that fails
\* appends none.
C19_LogsOnce ==
    \A op \in StoreOperations : CanExecute(op, "return") => LogsOnce(op, "return")

\* C19, witness: the plugin operation that copies bos returned normally on
\* a full stack whose last item had just been typed, and the operation log
\* is empty.
C19_CopyNotLogged ==
    /\ ret.call = "execute"
    /\ ret.key = "k"
    /\ ret.exc = ""
    /\ Len(ss.s) = STACKDEPTH
    /\ ss.s[STACKDEPTH] = InitFull(0)
    /\ hs.undo_stack # <<>>
    /\ Top(hs.undo_stack).editing_last_item
    /\ ss.operation_history = <<>>

\* The part of C19 that the code keeps: the same, for the operations that do
\* not retain their arguments and functions that do not ask for a rollback.
LogsOnceWithoutRetain ==
    \A op \in Operations \cup StoreOperations, choice \in PluginChoices :
        CanExecute(op, choice) /\ ~op.retain /\ choice # "RollbackTransaction"
            => LogsOnce(op, choice)

\* The number of menus between a menu and the main menu.
RECURSIVE Depth(_)
Depth(m) == IF IsMainMenu(m) THEN 0 ELSE 1 + Depth(Parent(m)[1])

\* The menu that n quit keys lead to from menu m, None once one of them
\* raised.
RECURSIVE QuitTimes(_, _)
QuitTimes(m, n) ==
    LET Quit(r) == IF r.exc # "" THEN None ELSE QuitTimes(r.val, n - 1)
    IN IF n = 0 THEN Some(m)
       ELSE Quit(EscMenuExecute(Displayed, m, QUIT_CHARACTER, "return"))

MenuExecuteContract(m, access_key, choice) ==
    LET r == EscMenuExecute(Displayed, m, access_key, choice)
        child == Children(m)[access_key]
    IN IF access_key = QUIT_CHARACTER
       THEN IF IsMainMenu(m) THEN r.exc = "SystemExit"
            ELSE r.exc = "" /\ r.val = Parent(m)[1] /\ r.w = Displayed
       ELSE IF access_key \notin DOMAIN Children(m) THEN r.exc = "NotInMenuError"
       ELSE IF child.is_menu
       THEN r.exc = "" /\ r.val = child.menu /\ r.w = Displayed
       ELSE /\ r.w = Execute(Displayed, child.op, choice).w
            /\ r.exc = Execute(Displayed, child.op, choice).exc
            /\ r.exc = "" => r.val = "None"

MenuStepContract ==
    ret'.call = "menu.execute" =>
        IF ret'.key = QUIT_CHARACTER
        THEN IF menu = MainMenu THEN ret'.exc = "SystemExit" /\ ~running'
             ELSE /\ menu' = Parent(menu)[1]
                  /\ Depth(menu') = Depth(menu) - 1
                  /\ <<ss', hs', registry'>> = <<ss, hs, registry>>
        ELSE IF ret'.key \notin DOMAIN Children(menu) THEN ret'.exc = "NotInMenuError"
        ELSE IF Children(menu)[ret'.key].is_menu
        THEN /\ menu' = Children(menu)[ret'.key].menu
             /\ <<ss', hs', registry'>> = <<ss, hs, registry>>
        ELSE /\ ret'.exc = "" => menu' = MainMenu /\ ret'.val = "None"
             /\ ret'.exc = "" =>
                    Len(ss'.operation_history) = Len(ss.operation_history) + 1

\* C20: EscMenu.execute with the quit key returns the parent of a menu that
\* is not the main menu and raises SystemExit in the main menu, so that from
\* a menu at depth d, d quit keys lead to the main menu and one more leaves
\* the program; with the key of a child menu it returns that menu and
\* leaves the stack, the history and the registers as they were; with the
\* key of an operation it executes the operation and returns None, after
\* which user_loop displays the main menu.
C20_Menu ==
    /\ [](\A m \in Menus :
            /\ \A access_key \in MenuKeys, choice \in SessionChoices :
                 RaisesIn(m, access_key, choice) =>
                     MenuExecuteContract(m, access_key, choice)
            /\ QuitTimes(m, Depth(m)) = Some(MainMenu)
            /\ \A n \in 0..(Depth(m) - 1) :
                 /\ QuitTimes(m, n) # None
                 /\ QuitTimes(m, n) # Some(MainMenu)
            /\ QuitTimes(m, Depth(m) + 1) = None)
    /\ [][MenuStepContract]_vars

\* C20 witness: the quit key was pressed in the menu of depth two, with
\* numbers on the stack, and the menu of depth one is displayed.
C20_QuitFromDepthTwo ==
    /\ ret.call = "menu.execute"
    /\ ret.key = QUIT_CHARACTER
    /\ menu = TrigMenu
    /\ Len(ss.s) = 2
    /\ running

Names(msg, access_key) == \E i \in 1..Len(msg) : msg[i] = access_key

Unbound(m) == MenuKeys \ (DOMAIN Children(m) \cup {QUIT_CHARACTER})

NotInMenuContract(m, access_key) ==
    LET r == EscMenuExecute(Displayed, m, access_key, "return")
    IN /\ r.exc = "NotInMenuError"
       /\ r.w = Displayed

NotInMenuStep ==
    (ret'.call = "menu.execute" /\ ret'.key \in Unbound(menu)) =>
        /\ ret'.exc = "NotInMenuError"
        /\ <<ss', hs', registry', menu', running'>> = <<ss, hs, registry, menu, running>>
        /\ status'.error_state = "ERROR"
        /\ status'.override_msg = ret'.msg

RegisterChildContract(m, child) ==
    IF child.key \in DOMAIN children[m]
    THEN /\ ret'.exc = "ProgrammingError"
         /\ Names(ret'.msg, child.description)
         /\ Names(ret'.msg, children[m][child.key].description)
         /\ children' = children
    ELSE /\ ret'.exc = ""
         /\ DOMAIN children'[m] = DOMAIN children[m] \cup {child.key}
         /\ children'[m][child.key] = [description |-> child.description, parent |-> m]
         /\ \A k \in DOMAIN children[m] : children'[m][k] = children[m][k]
         /\ \A n \in Menus \ {m} : children'[n] = children[n]

\* C22: register_child on a menu that already has a child under the key of
\* the new child raises ProgrammingError with a message that names the
\* description of the new child and that of the child in place, and leaves
\* the children of every menu as they were; otherwise it adds the child and
\* changes no other; so a child once registered is never replaced, and each
\* key of a menu maps to the first child registered under it.
C22_RegisterChild ==
    [][/\ \A m \in Menus, child \in Commands :
            DoRegisterChild(m, child) => RegisterChildContract(m, child)
       /\ \A m \in Menus : \A k \in DOMAIN children[m] :
            k \in DOMAIN children'[m] /\ children'[m][k] = children[m][k]]_vars

\* C22 witness: "double" was refused under the key "d" of the main menu,
\* which still maps to "duplicate bos".
C22_SecondRefused ==
    /\ ret.call = "register_child"
    /\ ret.key = "d"
    /\ ret.exc = "ProgrammingError"
    /\ "d" \in DOMAIN children[MainMenu]
    /\ children[MainMenu]["d"].description = "duplicate bos"
    /\ Names(ret.msg, "double")
    /\ Names(ret.msg, "duplicate bos")
    /\ Names(ret.msg, MenuDescription(MainMenu))

Allowed(mode) == mode.allowable_values = None \/ mode.value \in mode.allowable_values[1]

\* C23 as stated: a mode with allowable values never holds a value outside
\* them: modes.register and modes.set with a value that is not allowed raise
\* ProgrammingError and leave the table of modes as it was, so that in every
\* reachable state the value of every mode is one of its allowable values.
C23_ModeAllowed ==
    /\ [](\A name \in DOMAIN modes : Allowed(modes[name]))
    /\ [](\A name \in ModeNames, val \in ModeValues, allowable_values \in AllowableValues :
            LET r == ModesRegister(modes, name, val, allowable_values)
                s == ModesSet(modes, name, val)
            IN /\ (allowable_values # None /\ val \notin allowable_values[1]) =>
                    r.exc = "ProgrammingError" /\ r.modes = modes
               /\ (name \in DOMAIN modes /\ ~Allowed([modes[name] EXCEPT !.value = val])) =>
                    s.exc = "ProgrammingError" /\ s.modes = modes)

\* C23 witness of the failure: modes.register returned normally for a mode
\* whose default value is none of its allowable values, and the mode holds
\* that value.
C23_RegisteredNotAllowed ==
    /\ ret.call = "modes.register"
    /\ ret.exc = ""
    /\ ret.val = "gradians"
    /\ ModesGet(modes, ret.key) = Some("gradians")
    /\ modes[ret.key].allowable_values = Some({"degrees", "radians"})

\* The part of C23 that holds: modes.set with a value that is not allowed
\* raises ProgrammingError and leaves the table of modes as it was, and a
\* mode registered with an allowed value holds an allowed value after every
\* modes.set.
SetKeepsAllowed ==
    [][ret'.call = "modes.set" =>
         /\ \A name \in DOMAIN modes :
              Allowed(modes[name]) => name \in DOMAIN modes' /\ Allowed(modes'[name])
         /\ (ret'.key \in DOMAIN modes
               /\ ~Allowed([modes[ret'.key] EXCEPT !.value = ret'.val])) =>
              ret'.exc = "ProgrammingError" /\ modes' = modes]_vars

ProgrammingErrors == {"ProgrammingError", "FunctionProgrammingError"}

TestCases ==
    {TestCase(before, after, raises) :
       before \in TestBefores, after \in TestAfters, raises \in TestRaises}

TestRuns ==
    {run \in [tc : TestCases, operation : TestOperations, choice : TestChoices] :
       run.choice # "return" => run.operation = Plugin}

\* C24 as stated: a test case that has both after values and an expected
\* exception is rejected with a programming error when it is executed,
\* whatever the after values (an empty list included) and whatever the
\* operation does.
C24_AfterAndRaises ==
    \A run \in TestRuns :
        (run.tc.after # None /\ run.tc.raises # None) =>
            TestCaseExecute(World, run.tc, run.operation, run.choice).exc
                \in ProgrammingErrors

\* C24 witness of the failure: a test case with an empty list of after
\* values and an expected exception was executed, and passed.
C24_EmptyAfterPassed ==
    /\ ret.call = "TestCase.execute"
    /\ ret.tc.after = Some(<<>>)
    /\ ret.tc.raises # None
    /\ ret.exc = ""
    /\ running

\* The part of C24 that holds: a test case with a non-empty list of after
\* values and an expected exception is refused with an exception before the
\* operation runs, so that the history is as it was.
RefusedWhenAfterNotEmpty ==
    \A run \in TestRuns :
        (Truthy(run.tc.after) /\ run.tc.raises # None) =>
            LET t == TestCaseExecute(World, run.tc, run.operation, run.choice)
            IN t.exc # "" /\ t.w = World

\* The outcome of the operation of a test run on the new engine loaded with
\* the before values.
Operated(run) ==
    Execute(PushDecimals([World EXCEPT !.ss = StackStateInit, !.reg = RegistryInit],
                         run.tc.before, None).w,
            run.operation, run.choice)

\* Whether a test run has to pass: the operation raises and the exception
\* expected is that exception or one it wraps, or it returns, no exception
\* is expected and the values of the stack are the after values.
HasToPass(run) ==
    LET r == Operated(run)
    IN IF r.exc # ""
       THEN /\ run.tc.raises # None
            /\ \/ IsInstance(r.exc, run.tc.raises[1])
               \/ r.fexc # "" /\ IsInstance(r.fexc, run.tc.raises[1])
       ELSE /\ run.tc.raises = None
            /\ AsDecimal(r.w.ss) =
                 IF run.tc.after = None THEN <<>>
                 ELSE [i \in 1..Len(run.tc.after[1]) |-> Some(run.tc.after[1][i])]

\* C25 as stated: TestCase.execute runs the operation on a new engine loaded
\* with the before values; it passes exactly when the operation raises and
\* the expected exception is the one raised or one that it wraps, or the
\* operation returns, no exception is expected and the values of the stack
\* are the after values; in every other case it raises a programming error.
C25_TestCase ==
    \A run \in TestRuns :
        LET t == TestCaseExecute(World, run.tc, run.operation, run.choice)
        IN (Truthy(run.tc.after) => run.tc.raises = None) =>
             IF HasToPass(run) THEN t.exc = "" ELSE t.exc \in ProgrammingErrors

\* C25 witness of the failure: the test case before = [6, 2], after = [] of
\* divide was executed, the stack was [3], and an AttributeError, which is
\* no programming error, left TestCase.execute.
C25_RejectedWithAttributeError ==
    /\ ret.call = "TestCase.execute"
    /\ ret.key = "/"
    /\ ret.tc = TestCase(<<6, 2>>, Some(<<>>), None)
    /\ ret.exc = "AttributeError"
    /\ ~running

\* The test case before = [6, 2], after = [4] of divide was executed and a
\* TypeError left TestCase.execute.
SixByTwoIsNotFour ==
    /\ ret.call = "TestCase.execute"
    /\ ret.key = "/"
    /\ ret.tc = TestCase(<<6, 2>>, Some(<<4>>), None)
    /\ ret.exc = "TypeError"
    /\ ~running

\* The part of C25 that holds: a test run passes exactly when it has to,
\* and otherwise an exception leaves TestCase.execute.
PassesWhenItHasTo ==
    \A run \in TestRuns :
        LET t == TestCaseExecute(World, run.tc, run.operation, run.choice)
        IN (Truthy(run.tc.after) => run.tc.raises = None) =>
             (t.exc = "" <=> HasToPass(run))

\* A test case of divide that passes: before = [6, 2], after = [3].
SixByTwoPassed ==
    /\ ret.call = "TestCase.execute"
    /\ ret.key = "/"
    /\ ret.tc = TestCase(<<6, 2>>, Some(<<3>>), None)
    /\ ret.exc = ""

\* The values that only the test cases put on a stack: the session of
\* SpecMain types zeros and its operations return their argument or one.
TestValues == {6, 2, 3}

FromTest(memento) ==
    \E i \in 1..Len(memento.s) :
        memento.s[i].decimal # None /\ memento.s[i].decimal[1] \in TestValues

\* C26: the test cases run on engines of their own and the history is
\* cleared after them: while they run, the stack and the registers of the
\* session are as constructed; when the session starts the undo list and the
\* redo list are empty, an undo or a redo then fails, and in the session no
\* checkpoint of the history, and no stack, is one that a test case made.
C26_SessionHistory ==
    /\ phase = "test" => ss = StackStateInit /\ registry = RegistryInit
    /\ ret.call = "hs.clear" =>
         /\ phase = "user_loop"
         /\ hs = HistoryInit
         /\ ss = StackStateInit
         /\ Undo(World).val = "False" /\ Undo(World).w = World
         /\ Redo(World).val = "False" /\ Redo(World).w = World
    /\ phase = "user_loop" =>
         /\ \A i \in 1..Len(hs.undo_stack) : ~FromTest(hs.undo_stack[i])
         /\ \A i \in 1..Len(hs.redo_stack) : ~FromTest(hs.redo_stack[i])
         /\ ~FromTest(Memento(ss))

\* C26 witness: the first key of the session was undo, and there was
\* nothing to undo.
C26_FirstUndoFails ==
    /\ phase = "user_loop"
    /\ ret.call = "undo"
    /\ status.error_state = "ERROR"
    /\ status.override_msg = <<"Nothing to undo.">>
    /\ hs = HistoryInit
    /\ ss = StackStateInit

\* A test case has left a checkpoint in the history.
TestCheckpointed ==
    /\ phase = "test"
    /\ hs.undo_stack # <<>>
    /\ FromTest(hs.undo_stack[1])

\* C27: for every operation that may be simulated and every stack,
\* the memento of the stack after simulated_result is the memento before it,
\* whether the simulated execution returns, gives the description of an
\* InsufficientItemsError or of a FunctionExecutionError, or raises another
\* exception.
C27_SimulationRestores ==
    /\ \A op \in Operations, choice \in PluginChoices :
         CanExecute(op, choice) =>
             Memento(SimulatedResult(World, op, TRUE, choice).w.ss) = Memento(ss)
    /\ \A op \in Operations :
         SimulatedResult(World, op, FALSE, "return").w = World

\* C27 witness: the simulation of the plugin on a stack of two items, while
\* the second was being typed, ended with an exception that is no
\* FunctionExecutionError, and the stack is as it was.
C27_SimulatedRaise ==
    /\ ret.call = "simulated_result"
    /\ ret.exc = "TypeError"
    /\ Len(ss.s) = 2
    /\ ss.editing_last_item
    /\ ss.operation_history = <<>>

RemoveAt(s, i) == [j \in 1..(Len(s) - 1) |-> IF j < i THEN s[j] ELSE s[j + 1]]

\* The item that is being edited: the item at stack_posn when the edit flag
\* is set and that item is partial; None otherwise.
Edited(sst) ==
    IF sst.editing_last_item /\ Bos(sst) # None /\ ~Bos(sst)[1].is_entered
    THEN Bos(sst)
    ELSE None

BackspaceContract ==
    LET r == Backspace(World)
        i == PyIdx(ss.s, ss.stack_posn)
    IN IF Edited(ss) = None
       THEN r.exc = "" /\ r.val = "-1" /\ r.w = World
       ELSE IF Len(Edited(ss)[1].string) > 1
       THEN /\ r.exc = "" /\ r.val = "0"
            /\ r.w.ss = [ss EXCEPT !.s[i].string = SubSeq(@, 1, Len(@) - 1)]
       ELSE /\ r.exc = "" /\ r.val = "1"
            /\ r.w.ss = [ss EXCEPT !.s = RemoveAt(@, i),
                                   !.editing_last_item = FALSE,
                                   !.stack_posn = @ - 1]

\* C28 as stated: backspace returns -1 and changes nothing when no item is
\* being edited; when the item being edited has more than one character it
\* removes the last character of that item only and returns 0; when it has
\* one character it removes that item, turns the edit flag off, moves
\* stack_posn to the item before and returns 1.
C28_Backspace == BackspaceContract

\* C28 witness of the failure: a character was typed, pop took the item
\* away, and backspace, with no item left to edit, raised AssertionError.
C28_BackspaceAsserted ==
    /\ ret.call = "backspace"
    /\ ret.exc = "AssertionError"
    /\ ss.s = <<>>
    /\ ss.editing_last_item

\* The edit flag is set only when the last item is partial and stack_posn
\* is its index.
EditingConsistent ==
    ss.editing_last_item =>
        /\ ss.s # <<>>
        /\ ~ss.s[Len(ss.s)].is_entered
        /\ ss.stack_posn = Len(ss.s) - 1

\* The part of C28 that holds: the contract of backspace in the states in
\* which the edit flag is set only for a partial last item at stack_posn.
BackspaceWhenConsistent == EditingConsistent => BackspaceContract

\* backspace has removed a character of a partial item of two characters.
CharacterRemoved ==
    /\ ret.call = "backspace"
    /\ ret.val = "0"
    /\ ss.editing_last_item
    /\ Len(ss.s) = 2
    /\ Len(ss.s[2].string) = 1

\* backspace has removed the second item, which had one character.
WholeItemRemoved ==
    /\ ret.call = "backspace"
    /\ ret.val = "1"
    /\ ~ss.editing_last_item
    /\ Len(ss.s) = 1
    /\ ss.stack_posn = 0

\* C29: add_character returns False and leaves the stack as it is when the
\* edit flag is off and the stack holds STACKDEPTH items, and when the item
\* being edited has STACKWIDTH characters; the string of a partial item
\* never has more than STACKWIDTH characters.
C29_AddCharacter ==
    /\ \A c \in Chars :
         LET r == AddCharacter(World, c)
         IN /\ (~ss.editing_last_item /\ Len(ss.s) = STACKDEPTH) =>
                 r.exc = "" /\ r.val = "False" /\ r.w = World
            /\ (Edited(ss) # None /\ Len(Edited(ss)[1].string) = STACKWIDTH) =>
                 r.exc = "" /\ r.val = "False" /\ r.w = World
    /\ \A i \in 1..Len(ss.s) :
         ~ss.s[i].is_entered => Len(ss.s[i].string) <= STACKWIDTH

\* C29 witness: a character was refused for the partial item, which has
\* STACKWIDTH characters.
C29_TooWide ==
    /\ ret.call = "add_character"
    /\ ret.val = "False"
    /\ Edited(ss) # None
    /\ Len(Edited(ss)[1].string) = STACKWIDTH

\* A character was refused on a stack of STACKDEPTH entered items.
TooDeep ==
    /\ ret.call = "add_character"
    /\ ret.val = "False"
    /\ ~ss.editing_last_item
    /\ Len(ss.s) = STACKDEPTH

\* C30 as stated: in every state that the operations of the stack engine
\* reach, if the edit flag is set then the stack is not empty and its last
\* item is partial.
C30_EditFlag ==
    ss.editing_last_item => ss.s # <<>> /\ ~ss.s[Len(ss.s)].is_entered

\* C30 witness of the failure: a character was typed and pop took the item
\* away; the edit flag is set and the stack is empty.
C30_PoppedWhileEditing ==
    /\ ret.call = "pop"
    /\ ret.exc = ""
    /\ ret.val # "None"
    /\ ss.editing_last_item
    /\ ss.s = <<>>

\* A character was typed and a number pushed; the edit flag is set and the
\* last item is entered.
PushedWhileEditing ==
    /\ ret.call = "push"
    /\ ss.editing_last_item
    /\ Len(ss.s) = 2
    /\ ~ss.s[1].is_entered
    /\ ss.s[2].is_entered

\* The part of C30 that holds: add_character, backspace, enter_number and
\* clear keep the edit flag to a partial last item.
EditFlagKeptByEntry ==
    [][(C30_EditFlag /\ ret'.call \in {"add_character", "backspace", "enter_number", "clear"})
          => C30_EditFlag']_vars

(***************************************************************************)
(* C31: in every state that the methods of StackState reach (push, pop     *)
(* and the pops that fail, add_character, backspace, clear),               *)
(* free_stack_spaces equals STACKDEPTH - len(s), and has_push_space(n)     *)
(* holds exactly when n <= free_stack_spaces.                              *)
(***************************************************************************)
C31_FreeStackSpaces ==
    /\ FreeStackSpaces(ss) = STACKDEPTH - Len(ss.s)
    /\ \A n \in 0..(STACKDEPTH + MaxDrift + 1) :
         HasPushSpace(ss, n) <=> n <= FreeStackSpaces(ss)

\* C31: a pop of more items than the stack holds has returned None and left
\* the items of the stack, and free_stack_spaces counts more spaces than
\* has_push_space grants.
C31_FailedPopDrifted ==
    /\ ret.call = "pop"
    /\ ret.val = "None"
    /\ ret.key = ""
    /\ ret.n > Len(ss.s)
    /\ FreeStackSpaces(ss) > STACKDEPTH - Len(ss.s)
    /\ ~HasPushSpace(ss, FreeStackSpaces(ss))

\* Where stack_posn is the position of the last item, the two agree.
FreeStackSpacesWithoutDrift ==
    ss.stack_posn = Len(ss.s) - 1
        => /\ FreeStackSpaces(ss) = STACKDEPTH - Len(ss.s)
           /\ \A n \in 0..(STACKDEPTH + 1) :
                HasPushSpace(ss, n) <=> n <= FreeStackSpaces(ss)

(***************************************************************************)
(* C32: if the item being edited is not a valid number when the user       *)
(* invokes store_register, retrieve_register or delete_register, the       *)
(* failure is recovered locally: an error message is on the status bar,    *)
(* the stack state is unchanged, and user_loop goes on to read the next    *)
(* key (no exception leaves the loop).                                     *)
(***************************************************************************)
RegisterHandlers == {"store_register", "retrieve_register", "delete_register"}

C32_RegisterKeyRecovered ==
    [][(InvalidEntry /\ ret'.call \in RegisterHandlers)
          => /\ running'
             /\ ret'.exc = ""
             /\ status'.error_state = "ERROR"
             /\ ~status'.error_seen
             /\ ss' = ss]_vars

\* C32: the store key was pressed while an invalid number was being typed,
\* and the ValueError of enter_number has left user_loop.
C32_ValueErrorLeftTheLoop ==
    /\ ret.call = "store_register"
    /\ ret.exc = "ValueError"
    /\ ret.msg = <<"Bottom of stack is not a valid number.">>
    /\ ss.editing_last_item
    /\ ~ValidNumber(Bos(ss)[1].string)
    /\ ~running

\* The part of C32 that the transaction gives: the stack state is unchanged.
RegisterKeyRestores ==
    [][(InvalidEntry /\ ret'.call \in RegisterHandlers) => ss' = ss]_vars

(***************************************************************************)
(* C33: with the precision of twelve significant digits in force, divide   *)
(* on a stack that ends with 4 and 6 replaces them with the one item       *)
(* 0.666666666667 and appends the log line "4 / 6 = 0.666666666667".       *)
(***************************************************************************)
TwoThirds == <<"0", ".", "6", "6", "6", "6", "6", "6", "6", "6", "6", "6", "6", "7">>

EndsWithFourAndSix ==
    /\ Len(ss.s) >= 2
    /\ LastN(ss.s, 2) = <<InitFull(4), InitFull(6)>>
    /\ ~ss.editing_last_item

C33_FourBySix ==
    [][(EndsWithFourAndSix /\ ret'.call = "divide")
          => /\ ret'.exc = ""
             /\ Len(ss'.s) = Len(ss.s) - 1
             /\ SubSeq(ss'.s, 1, Len(ss.s) - 2) = SubSeq(ss.s, 1, Len(ss.s) - 2)
             /\ Top(ss'.s).is_entered
             /\ Top(ss'.s).string = TwoThirds
             /\ Top(ss'.s).decimal = <<6, 6, 6, 6, 6, 6, 6, 6, 6, 6, 6, 7, -12>>
             /\ ss'.operation_history
                  = Append(ss.operation_history, <<"4", " ", "/", " ", "6", " = ">> \o TwoThirds)]_vars

\* C33: 4 and 6 were pushed on the empty stack and divide has run.
C33_FourBySixDivided ==
    /\ ret.call = "divide"
    /\ ret.exc = ""
    /\ Len(ss.s) = 1
    /\ ss.s[1].string = TwoThirds
    /\ ss.operation_history = <<<<"4", " ", "/", " ", "6", " = ">> \o TwoThirds>>
    /\ hs.undo_stack = <<[StackStateInit EXCEPT !.s = <<InitFull(4), InitFull(6)>>,
                                                !.stack_posn = 1]>>

(***************************************************************************)
(* C34: within one execute() the steps occur in the order start,           *)
(* arguments retrieved, function invoked, results stored, committed.  The  *)
(* function is invoked at most once, and only after the number being typed *)
(* was entered, the check of the space passed and the arguments were       *)
(* retrieved; if one of those steps fails the function is never invoked    *)
(* and the execution ends rolled back.                                     *)
(***************************************************************************)
ExecutionOrder == <<"start", "argumentsRetrieved", "functionInvoked", "resultsStored", "committed">>

\* The steps made are steps of ExecutionOrder in its order, or such steps
\* followed by the rollback.
InOrder(trace) ==
    \E n \in 1..Len(ExecutionOrder) :
        \/ trace = SubSeq(ExecutionOrder, 1, n)
        \/ n < Len(ExecutionOrder) /\ trace = Append(SubSeq(ExecutionOrder, 1, n), "rolledBack")

\* What holds when the function is invoked.
AtInvocation ==
    /\ ret.step = "argumentsRetrieved"
    /\ ret.invoked = 0
    /\ ~ss.editing_last_item
    /\ \A i \in 1..Len(ss.s) : ss.s[i].is_entered
    /\ ret.op.pop # -1
         => /\ STACKDEPTH >= Len(ss.s) + ret.op.push
                               - (IF ret.op.retain THEN ret.op.pop ELSE 0)
            /\ ret.args = LastN(EnterNumber(ret.start, Some(ret.key)).w.ss.s, ret.op.pop)
    /\ ret.op.pop = -1 => ret.args = EnterNumber(ret.start, Some(ret.key)).w.ss.s
    /\ \A i \in 1..Len(ret.args) : ret.args[i].is_entered

ExecutionStates ==
    ret.call = "execute_step"
        => /\ InOrder(ret.trace)
           /\ ret.invoked <= 1
           /\ ret.step \in {"functionInvoked", "resultsStored", "committed"}
                => ret.invoked = 1
           /\ (ret.step = "rolledBack" /\ Len(ret.trace) = 2)
                => /\ ret.invoked = 0
                   /\ ret.exc # ""
                   /\ ss = ret.checkpoint

C34_ExecutionOrder ==
    [][/\ ExecutionStates'
       /\ (ret.call = "execute_step" /\ ret'.call = "execute_step"
             /\ ret'.invoked > ret.invoked) => AtInvocation]_vars

\* C34: divide was executed while a number that is not valid was being
\* typed; the execution ended rolled back without its function invoked.
C34_RolledBackBeforeInvocation ==
    /\ ret.call = "execute_step"
    /\ ret.key = "/"
    /\ ret.trace = <<"start", "rolledBack">>
    /\ ret.exc = "FunctionExecutionError"
    /\ ret.invoked = 0
    /\ ss.editing_last_item
    /\ ~ValidNumber(Bos(ss)[1].string)

\* An execution has gone through all its steps.
ExecutionCommitted ==
    /\ ret.call = "execute_step"
    /\ ret.trace = ExecutionOrder
    /\ ret.invoked = 1

\* The steps end in the world and with the exception of execute().
StepsAreExecute ==
    (ret.call = "execute_step" /\ ret.step \in {"committed", "rolledBack"})
        => /\ World = Execute(ret.start, ret.op, ret.choice).w
           /\ ret.exc = Execute(ret.start, ret.op, ret.choice).exc
           /\ ret.msg = Execute(ret.start, ret.op, ret.choice).msg

(***************************************************************************)
(* C35: the flag consts.TESTING, bound to the parameter testing of a       *)
(* function, is true while EscMenu.test is running the tests of            *)
(* operations, at any depth of submenus, and is restored to its old value  *)
(* when test() returns or fails: a function that declares testing sees     *)
(* True in its test cases, and False when the user executes it afterwards. *)
(***************************************************************************)
\* The test case of is_testing that passes when testing is bound to True.
SeesTesting(run) ==
    /\ run.call = "TestCase.execute"
    /\ run.key = PluginTesting.key
    /\ run.tc = TestCase(<<6>>, Some(<<6, 1>>), None)

C35_TestingFlag ==
    [][/\ (frames' # <<>>) => TESTING'
       /\ (frames' = <<>>) => ~TESTING'
       /\ (frames' # <<>> /\ Len(frames') < Len(frames))
            => TESTING' = frames[Len(frames)].old_testing
       /\ (ret'.call = "TestCase.execute" /\ SeesTesting(ret')) => ret'.exc = ""
       /\ (ret'.call = "execute" /\ ret'.key = PluginTesting.key /\ ret'.exc = "")
            => /\ phase' = "user_loop"
               /\ Top(ss'.s) = InitFull(0)]_vars

\* C35: in the test of the plugin menu, two menus below the main menu, the
\* function that declares testing was bound to True.
C35_TrueInSubmenus ==
    /\ Len(frames) = 3
    /\ frames[3].menu = PluginMenu
    /\ SeesTesting(ret)
    /\ ret.exc = ""
    /\ TESTING

\* After the tests the user has executed the operation, which saw False.
FalseForTheUser ==
    /\ phase = "user_loop"
    /\ ret.call = "execute"
    /\ ret.key = PluginTesting.key
    /\ Top(ss.s) = InitFull(0)
    /\ ~TESTING

\* A test case has failed in a submenu, and the flag is False again.
RestoredWhenFailed ==
    /\ ret.call = "TestCase.execute"
    /\ ret.exc # ""
    /\ ~running
    /\ frames = <<>>
    /\ ~TESTING

(***************************************************************************)
(* C36: simulated_result leaves the history unchanged: the undo stack and  *)
(* the redo stack are the same after the call as before it, so that the    *)
(* preview of an operation never adds an undo step and never discards the  *)
(* redo steps.                                                             *)
(***************************************************************************)
C36_SimulationKeepsHistory ==
    [][ret'.call = "simulated_result" => hs' = hs]_vars

\* C36: the first call made on a stack of one item was the simulation of an
\* operation, and the undo stack holds a checkpoint of that stack.
C36_SimulationCheckpointed ==
    /\ ret.call = "simulated_result"
    /\ ret.val = "This calculation would occur:"
    /\ ss.s = <<InitFull(5)>>
    /\ hs.undo_stack = <<Memento(ss)>>

\* The simulation of an operation that may not be simulated executes
\* nothing, and keeps the history.
DisabledSimulationKeepsHistory ==
    [][(ret'.call = "simulated_result"
          /\ ret'.val = "The author of this operation has disabled") => hs' = hs]_vars

(***************************************************************************)
(* Mode changes: the operations of the trig menu are executed and          *)
(* previewed by the help system on the stack of the session.               *)
(***************************************************************************)
\* A method called with a mode-change operation: the engine ends as r
\* tells, the table of modes as table; ret also keeps the value that the
\* mode had before the call.
ModeMethod(name, op, r, table) ==
    /\ running
    /\ ss' = r.w.ss
    /\ hs' = r.w.hs
    /\ status' = r.w.st
    /\ registry' = r.w.reg
    /\ modes' = table
    /\ ret' = [call |-> name, key |-> op.key, n |-> 0, val |-> r.val, exc |-> r.exc,
               msg |-> r.msg, num |-> r.num, fexc |-> r.fexc,
               was |-> ModesGet(modes, op.mode_name)]
    /\ UNCHANGED <<running, menu, children, phase, TESTING, frames>>

\* EscOperation.execute of a mode change.
DoModeChange(op) ==
    ModeMethod("execute", op,
               Execute(World, op, ModesSet(modes, op.mode_name, op.to_value).exc),
               ModesAfter(modes, World, op))

\* EscOperation.simulated_result of a mode change, whose simulate_allowed
\* is the default of EscOperation.__init__.
DoSimulatedModeChange(op) ==
    ModeMethod("simulated_result", op,
               SimulatedResult(World, op, TRUE,
                               ModesSet(modes, op.mode_name, op.to_value).exc),
               ModesAfter(modes, World, op))

NextModeHelp ==
    \/ \E decs \in PushSeqs : ~ss.editing_last_item /\ Building(DoPush(decs))
    \/ \E c \in Chars : Building(DoAddCharacter(c))
    \/ \E op \in ModeChanges : Within(DoModeChange(op))
    \/ \E op \in ModeChanges : Within(DoSimulatedModeChange(op))

SpecModeHelp == Init /\ [][NextModeHelp]_vars

\* C37: simulated_result of an operation whose simulation is allowed leaves
\* the value of every mode as it was: a preview of a mode change does not
\* switch the mode.
C37_SimulationKeepsModes ==
    [][ret'.call = "simulated_result" => modes' = modes]_vars

\* C37: the help on 'd' of the trig menu described the calculation, and the
\* trig mode, which was radians before the preview, is degrees after it.
C37_PreviewSwitchedMode ==
    /\ ret.call = "simulated_result"
    /\ ret.key = Degrees.key
    /\ ret.val = "This calculation would occur:"
    /\ "was" \in DOMAIN ret
    /\ ret.was = Some("radians")
    /\ ModesGet(modes, TRIG_MODE_NAME) = Some("degrees")

\* A preview of a mode change gives the stack back as it was.
ModePreviewRestoresStack ==
    [][ret'.call = "simulated_result" => ss' = ss]_vars

(***************************************************************************)
(* C38: when EscOperation.execute raises (the pending entry is invalid,    *)
(* the stack is too full, the items are too few, the function fails) the   *)
(* undo stack and the redo stack are what they were before the call.       *)
(***************************************************************************)
C38_FailedExecuteKeepsHistory ==
    [][ret'.call = "execute" /\ ret'.exc # "" => hs' = hs]_vars

\* C38: an operation failed for want of items on the stack of a session
\* that has no operation in its log, and the undo stack, empty before the
\* first call of execute, holds a checkpoint of that stack.
C38_FailedExecuteCheckpointed ==
    /\ ret.call = "execute"
    /\ ret.exc = "InsufficientItemsError"
    /\ ss.operation_history = <<>>
    /\ hs.undo_stack = <<Memento(ss)>>
    /\ hs.redo_stack = <<>>

\* What a failed execute does to the history is what checkpoint_stack does
\* in enter_number: the redo stack is emptied, and the stack as it was
\* before the call is appended to the undo stack unless it is its last
\* checkpoint.
FailedExecuteCheckpoints ==
    [][ret'.call = "execute" /\ ret'.exc # ""
         => /\ hs'.redo_stack = <<>>
            /\ hs'.undo_stack =
                 IF hs.undo_stack # <<>> /\ hs.undo_stack[Len(hs.undo_stack)] = Memento(ss)
                 THEN hs.undo_stack
                 ELSE Append(hs.undo_stack, Memento(ss))]_vars

(***************************************************************************)
(* C39: in the states of a session (digits, backspace, enter, operations,  *)
(* registers, undo and redo) no item but the last is being typed, and the  *)
(* items that an operation hands to its function are entered and have a    *)
(* Decimal.                                                                *)
(***************************************************************************)
Finalized(item) == item.is_entered /\ item.decimal # None

\* The items that _retrieve_arguments of op finds on the stack of the
\* session; no item when it raises.
HandedTo(op) ==
    IF RetrieveArguments(World, op).exc = "" THEN RetrieveArguments(World, op).out
    ELSE <<>>

C39_OnlyLastPartial ==
    /\ \A i \in 1..(Len(ss.s) - 1) : Finalized(ss.s[i])
    /\ \A op \in Operations : \A i \in 1..Len(HandedTo(op)) : Finalized(HandedTo(op)[i])

\* C39: 'd' was executed on a stack whose only item was being typed (the
\* checkpoint that enter_number took keeps it); its function was handed
\* the item and returned, and the two items on the stack are entered.
C39_TypedItemHanded ==
    /\ running
    /\ ret.call = "execute"
    /\ ret.key = Duplicate.key
    /\ ret.exc = ""
    /\ hs.undo_stack # <<>>
    /\ hs.undo_stack[Len(hs.undo_stack)].editing_last_item
    /\ ~hs.undo_stack[Len(hs.undo_stack)].s[1].is_entered
    /\ Len(ss.s) = 2
    /\ \A i \in 1..2 : Finalized(ss.s[i])

\* An item is being typed above an entered one, and '/' would be handed
\* both.
PartialAboveEntered ==
    /\ running
    /\ Len(ss.s) >= 2
    /\ ss.editing_last_item
    /\ ~ss.s[Len(ss.s)].is_entered
    /\ Len(HandedTo(Divide)) = 2

(***************************************************************************)
(* C40: when undo returns True the stack state after it differs from the   *)
(* stack state before it: no undo that succeeds is without effect.         *)
(***************************************************************************)
C40_UndoChangesState ==
    [][ret'.call = "undo" /\ ret'.val = "True" => ss' # ss]_vars

\* C40: undo returned True, and the stack state it restored is the one that
\* it was called with, which it appended to the redo stack.
C40_UndoRestoredSameState ==
    /\ ret.call = "undo"
    /\ ret.val = "True"
    /\ hs.redo_stack # <<>>
    /\ hs.redo_stack[Len(hs.redo_stack)] = Memento(ss)

\* An undo that succeeds takes a checkpoint off the undo stack and restores
\* it, whether it differs from the stack state or not.
UndoRestoresLastCheckpoint ==
    [][ret'.call = "undo" /\ ret'.val = "True"
         => /\ hs.undo_stack # <<>>
            /\ ss' = hs.undo_stack[Len(hs.undo_stack)]
            /\ hs'.undo_stack = SubSeq(hs.undo_stack, 1, Len(hs.undo_stack) - 1)]_vars

====
